---- MODULE Spec2Model ----
(***************************************************************************)
(* A model of the starchart graph validation and serialization engine:     *)
(* GraphAnalyzer.run driving a SemanticVisitor or a SerializationVisitor   *)
(* over the editor's graph, performGraphSerialization, and                 *)
(* performGraphDeserialization.                                            *)
(*                                                                         *)
(* JavaScript objects are functions from property names to values; an      *)
(* absent property (or one holding undefined) is a name outside the        *)
(* DOMAIN.  Objects whose key order the code iterates (the four sections   *)
(* of the serializer, the grouped diagnostics) are sequences of entries in *)
(* insertion order.  Strings are TLA+ strings; the validators read them    *)
(* through Chars, the table of their characters.                           *)
(***************************************************************************)
EXTENDS Integers, Sequences, FiniteSets, TLC

VARIABLES
    shapes,            \* App: the editor's graph, a sequence of nodes
    settings,          \* App: the chart settings handed to the serializer
    pc,                \* position inside performGraphSerialization / run
    visitor,           \* which visitor the running GraphAnalyzer.run drives
    ni,                \* run: index of the next node of pass 1
    ei,                \* run: index of the next adjacency entry of pass 2
    diagnostics,       \* GraphAnalyzer.diagnostics
    nodeNames,         \* SemanticVisitor.nodeNames
    seenEdges,         \* SemanticVisitor.seenEdges
    hardLinkCounts,    \* SemanticVisitor.hardLinkCounts
    shapeCounters,     \* SerializationVisitor.shapeCounters
    nameMap,           \* SerializationVisitor.nameMap
    sections,          \* SerializationVisitor.dataSources .. events
    schemaData,        \* SerializationVisitor.schemaData
    chartMetadata,     \* SerializationVisitor.chartMetadata
    report,            \* the Map<Node, Diagnostic[]> the last run returned
    result,            \* what the last performGraphSerialization returned
    yamls,             \* the documents downloaded so far, oldest first
    loaded,            \* the graph performGraphDeserialization returned
    uuidCount,         \* number of uuidv4() identifiers generated so far
    calls,             \* the visitor callbacks of the current run, in order
    loads,             \* number of performGraphDeserialization calls so far
    initial,           \* the editor's graph before the first operation on it
    lines,             \* App: the hard links drawn on the canvas
    softLines,         \* App: the soft links drawn on the canvas
    eventLines,        \* App: the event links drawn on the canvas
    content,           \* handleFileUpload: the text of the file read last
    deserializationError,  \* App: the message the last file upload left
    runs,              \* number of runs one GraphAnalyzer has returned from
    reordered          \* the same chart with shapes of one type drawn in another order

vars == << shapes, settings, pc, visitor, ni, ei, diagnostics, nodeNames,
           seenEdges, hardLinkCounts, shapeCounters, nameMap, sections,
           schemaData, chartMetadata, report, result, yamls, loaded,
           uuidCount, calls, loads, initial, lines, softLines, eventLines,
           content, deserializationError, runs, reordered >>

\* the state of App that only handleFileUpload writes
upload == << lines, softLines, eventLines, content, deserializationError >>

----------------------------------------------------------------------------
(* Bounds of the model.                                                    *)

MaxEdges == 2
MaxSaves == 2
MaxLoads == 1
MaxDiagnostics == 2
MaxTargets == 2
MaxRuns == 2

----------------------------------------------------------------------------
(* Enumerations of shapes/types.tsx and DiagnosticReporter.                *)

STORED_PROCEDURE == "stored_procedure"
EVENT == "event"
EVENT_TRIGGER == "event_trigger"
DATA_SOURCE == "data_source"
EShapeType == {STORED_PROCEDURE, EVENT, EVENT_TRIGGER, DATA_SOURCE}

HARD_LINK == "hard"
SOFT_LINK == "soft"
EVENT_LINK == "event"
ELineType == {HARD_LINK, SOFT_LINK, EVENT_LINK}

ERROR == "error"
WARNING == "warning"
INFO == "info"
ESeverity == {ERROR, WARNING, INFO}

----------------------------------------------------------------------------
(* JavaScript objects and arrays.                                          *)

Has(o, f) == f \in DOMAIN o

Put(o, f, v) == [k \in DOMAIN o \cup {f} |-> IF k = f THEN v ELSE o[k]]

\* o[f] = src[g], where an undefined src[g] leaves no property behind
PutFrom(o, f, src, g) == IF Has(src, g) THEN Put(o, f, src[g]) ELSE o

Remove(o, f) == [k \in DOMAIN o \ {f} |-> o[k]]

\* !o.f for a string property
FalsyStr(o, f) == ~Has(o, f) \/ o[f] = ""

\* !o.f for a boolean property
FalsyBool(o, f) == ~Has(o, f) \/ o[f] = FALSE

\* !o.f || o.f.length === 0 for an array property
NoEntries(o, f) == ~Has(o, f) \/ Len(o[f]) = 0

\* o.f ?? [] for an array property
ArrayOf(o, f) == IF Has(o, f) THEN o[f] ELSE <<>>

\* seq.indexOf(v) + 1: the first index holding v, 0 when there is none
IndexOf(seq, v) ==
    IF \E i \in 1..Len(seq) : seq[i] = v
    THEN CHOOSE i \in 1..Len(seq) : seq[i] = v /\ \A j \in 1..(i - 1) : seq[j] # v
    ELSE 0

----------------------------------------------------------------------------
(* Strings.  Chars(s) is the sequence of the characters of s, for every    *)
(* string the model's inputs use.                                          *)

Lower == {"a","b","c","d","e","f","g","h","i","j","k","l","m",
          "n","o","p","q","r","s","t","u","v","w","x","y","z"}
Upper == {"A","B","C","D","E","F","G","H","I","J","K","L","M",
          "N","O","P","Q","R","S","T","U","V","W","X","Y","Z"}
Digit == {"0","1","2","3","4","5","6","7","8","9"}
Space == {" "}

Chars(s) ==
    CASE s = "" -> <<>>
      [] s = "a" -> <<"a">>
      [] s = "b" -> <<"b">>
      [] s = "c" -> <<"c">>
      [] s = "d" -> <<"d">>
      [] s = "zz" -> <<"z","z">>
      [] s = "a-b" -> <<"a","-","b">>
      [] s = "b-a" -> <<"b","-","a">>
      [] s = "a-b-a" -> <<"a","-","b","-","a">>
      [] s = "u1" -> <<"u","1">>
      [] s = "u2" -> <<"u","2">>
      [] s = "u3" -> <<"u","3">>
      [] s = "u4" -> <<"u","4">>
      [] s = "u5" -> <<"u","5">>
      [] s = "u6" -> <<"u","6">>
      [] s = "u7" -> <<"u","7">>
      [] s = "u8" -> <<"u","8">>
      [] s = "u9" -> <<"u","9">>
      [] s = "svc 1" -> <<"s","v","c"," ","1">>
      [] s = "svc 2" -> <<"s","v","c"," ","2">>
      [] s = "svc 3" -> <<"s","v","c"," ","3">>
      [] s = "svc 4" -> <<"s","v","c"," ","4">>
      [] s = "datasource_1" -> <<"d","a","t","a","s","o","u","r","c","e","_","1">>
      [] s = "svc#1" -> <<"s","v","c","#","1">>
      [] s = "/data/in.csv" -> <<"/","d","a","t","a","/","i","n",".","c","s","v">>
      [] s = "bad path" -> <<"b","a","d"," ","p","a","t","h">>
      [] s = "res1" -> <<"r","e","s","1">>
      [] s = "res_1" -> <<"r","e","s","_","1">>
      [] s = "notes" -> <<"n","o","t","e","s">>
      [] s = "docker://img" -> <<"d","o","c","k","e","r",":","/","/","i","m","g">>
      [] s = "img" -> <<"i","m","g">>
      [] s = "pre" -> <<"p","r","e">>
      [] s = "pre!" -> <<"p","r","e","!">>
      [] s = "128Mi" -> <<"1","2","8","M","i">>
      [] s = "128X" -> <<"1","2","8","X">>
      [] s = "quiet" -> <<"q","u","i","e","t">>
      [] s = "topic1" -> <<"t","o","p","i","c","1">>
      [] s = "top/ic" -> <<"t","o","p","/","i","c">>
      [] s = "qemu/x86_64" -> <<"q","e","m","u","/","x","8","6","_","6","4">>
      [] s = "xen/arm64" -> <<"x","e","n","/","a","r","m","6","4">>
      [] s = "qemu/arm" -> <<"q","e","m","u","/","a","r","m">>
      [] s = "qemu/arm64" -> <<"q","e","m","u","/","a","r","m","6","4">>
      [] s = "xen/x86_64" -> <<"x","e","n","/","x","8","6","_","6","4">>
      [] s = "firecracker/x86_64" -> <<"f","i","r","e","c","r","a","c","k","e","r","/","x","8","6","_","6","4">>
      [] s = "firecracker/arm64" -> <<"f","i","r","e","c","r","a","c","k","e","r","/","a","r","m","6","4">>
      [] s = "kvm/arm64" -> <<"k","v","m","/","a","r","m","6","4">>
      [] s = "qemu/x86_64/arm64" -> <<"q","e","m","u","/","x","8","6","_","6","4","/","a","r","m","6","4">>
      [] s = "x86_64/qemu" -> <<"x","8","6","_","6","4","/","q","e","m","u">>
      [] s = "qemu/" -> <<"q","e","m","u","/">>
      [] s = "qemu" -> <<"q","e","m","u">>
      [] s = "xen" -> <<"x","e","n">>
      [] s = "firecracker" -> <<"f","i","r","e","c","r","a","c","k","e","r">>
      [] s = "x86_64" -> <<"x","8","6","_","6","4">>
      [] s = "arm64" -> <<"a","r","m","6","4">>
      [] s = "net0:10.0.0.2/24" -> <<"n","e","t","0",":","1","0",".","0",".","0",".","2","/","2","4">>
      [] s = "net0:10.0.0.256" -> <<"n","e","t","0",":","1","0",".","0",".","0",".","2","5","6">>
      [] s = "80:8080" -> <<"8","0",":","8","0","8","0">>
      [] s = "80:65536" -> <<"8","0",":","6","5","5","3","6">>
      [] s = "/h:/c" -> <<"/","h",":","/","c">>
      [] s = "/h" -> <<"/","h">>
      [] s = "KEY=v" -> <<"K","E","Y","=","v">>
      [] s = "1KEY" -> <<"1","K","E","Y">>
      [] s = "env=prod" -> <<"e","n","v","=","p","r","o","d">>
      [] s = "team = core" -> <<"t","e","a","m"," ","="," ","c","o","r","e">>
      [] s = "nolabel" -> <<"n","o","l","a","b","e","l">>

AllIn(cs, set) == \A i \in 1..Len(cs) : cs[i] \in set

\* the code units of the characters identifiers are made of, ascending
CodeOrder == <<"-", "0", "1", "2", "3", "4", "5", "6", "7", "8", "9",
               "a", "b", "c", "d", "u", "z">>

Code(c) == CHOOSE i \in 1..Len(CodeOrder) : CodeOrder[i] = c

RECURSIVE SeqLess(_, _)
\* a < b for JavaScript strings: by code unit, a proper prefix first
SeqLess(a, b) ==
    IF Len(b) = 0 THEN FALSE
    ELSE IF Len(a) = 0 THEN TRUE
    ELSE IF Code(a[1]) # Code(b[1]) THEN Code(a[1]) < Code(b[1])
    ELSE SeqLess(Tail(a), Tail(b))

StrLess(a, b) == SeqLess(Chars(a), Chars(b))

----------------------------------------------------------------------------
(* AnalysisUtils: the format validators.                                   *)

PathChars == Lower \cup Upper \cup Digit \cup {"_", "-", "/", "."}

\* /^[a-zA-Z0-9\s]+$/
isAlphanumeric(str) ==
    LET cs == Chars(str) IN Len(cs) > 0 /\ AllIn(cs, Lower \cup Upper \cup Digit \cup Space)

\* /^[a-zA-Z0-9_\-\/\.]+$/
checkPathFormat(str) ==
    LET cs == Chars(str) IN Len(cs) > 0 /\ AllIn(cs, PathChars)

\* /^[a-zA-Z0-9_\-\/\.]+:\/\/[a-zA-Z0-9_\-\/\.]+$/
checkImageFormat(str) ==
    LET cs == Chars(str) IN
    \E i \in 2..(Len(cs) - 3) :
        /\ cs[i] = ":" /\ cs[i + 1] = "/" /\ cs[i + 2] = "/"
        /\ AllIn(SubSeq(cs, 1, i - 1), PathChars)
        /\ AllIn(SubSeq(cs, i + 3, Len(cs)), PathChars)

\* /^([1-9][0-9]*)([KMG]i?)$/
checkMemoryFormat(str) ==
    LET cs == Chars(str)
        n == IF Len(cs) > 0 /\ cs[Len(cs)] = "i" THEN Len(cs) - 1 ELSE Len(cs)
    IN /\ n >= 2
       /\ cs[n] \in {"K", "M", "G"}
       /\ cs[1] \in Digit \ {"0"}
       /\ AllIn(SubSeq(cs, 2, n - 1), Digit)

RECURSIVE SplitFrom(_, _, _)
\* str.split(sep), on the characters cs, with cur the part being read
SplitFrom(cs, sep, cur) ==
    IF Len(cs) = 0 THEN <<cur>>
    ELSE IF cs[1] = sep THEN <<cur>> \o SplitFrom(Tail(cs), sep, <<>>)
    ELSE SplitFrom(Tail(cs), sep, Append(cur, cs[1]))

Split(cs, sep) == SplitFrom(cs, sep, <<>>)

\* the string whose characters are cs, among the words given
Word(cs, words) == \E w \in words : Chars(w) = cs

DigitValue(c) == CHOOSE v \in 0..9 : <<"0","1","2","3","4","5","6","7","8","9">>[v + 1] = c

RECURSIVE Decimal(_)
Decimal(cs) == IF Len(cs) = 0 THEN 0
               ELSE 10 * Decimal(SubSeq(cs, 1, Len(cs) - 1)) + DigitValue(cs[Len(cs)])

\* 25[0-5]|(2[0-4]|1\d|[1-9]|)\d : 0..255 with no leading zero
Octet(cs) ==
    /\ Len(cs) \in 1..3
    /\ AllIn(cs, Digit)
    /\ Len(cs) > 1 => cs[1] # "0"
    /\ Decimal(cs) <= 255

\* ip_regex: four octets, each followed by a dot or the end of the string; the
\* word boundary after an octet forbids a digit next to it and a dot at the end
IpFormat(cs) ==
    LET parts == Split(cs, ".") IN
    Len(parts) = 4 /\ \A i \in 1..4 : Octet(parts[i])

\* mask_regex: 0..32
MaskFormat(cs) ==
    /\ Len(cs) \in 1..2
    /\ AllIn(cs, Digit)
    /\ Len(cs) = 2 => cs[1] \in {"1", "2", "3"}
    /\ Decimal(cs) <= 32

AlNum == Lower \cup Upper \cup Digit

\* one label of hostName_regex: 2..63 characters, the first and last alphanumeric
HostLabel(cs) ==
    /\ Len(cs) \in 2..63
    /\ cs[1] \in AlNum /\ cs[Len(cs)] \in AlNum
    /\ AllIn(cs, AlNum \cup {"-"})

HostNameFormat(cs) ==
    LET labels == Split(cs, ".") IN \A i \in 1..Len(labels) : HostLabel(labels[i])

checkNetworkFormat(str) ==
    LET secs == Split(Chars(str), ":")
        ipm == Split(secs[2], "/")
    IN /\ Len(secs[1]) > 0 /\ AllIn(secs[1], AlNum \cup {".", "_", "-"})
       /\ Len(secs) >= 2 => /\ IpFormat(ipm[1])
                            /\ Len(ipm) > 1 => MaskFormat(ipm[2])
       /\ Len(secs) >= 3 => IpFormat(secs[3])
       /\ Len(secs) >= 4 => IpFormat(secs[4])
       /\ Len(secs) >= 5 => IpFormat(secs[5])
       /\ Len(secs) >= 6 => HostNameFormat(secs[6])
       /\ Len(secs) >= 7 => HostNameFormat(secs[7])

\* 0..65535, with leading zeros up to four digits
checkPortNumberFormat(cs) ==
    /\ Len(cs) \in 1..5
    /\ AllIn(cs, Digit)
    /\ Len(cs) = 5 => cs[1] # "0" /\ Decimal(cs) <= 65535

checkPortMappingFormat(str) ==
    LET ports == Split(Chars(str), ":") IN
    /\ Len(ports) = 2
    /\ checkPortNumberFormat(ports[1])
    /\ checkPortNumberFormat(ports[2])

PathFormat(cs) == Len(cs) > 0 /\ AllIn(cs, PathChars)

checkVolumeFormat(str) ==
    LET paths == Split(Chars(str), ":") IN
    /\ Len(paths) = 2
    /\ PathFormat(paths[1])
    /\ PathFormat(paths[2])

allowedPlatforms == {"qemu", "xen", "firecracker"}
allowedArchitectures == {"x86_64", "arm64"}

\* a check that takes any architecture
checkTargetFormat_AnyArchitecture(str) ==
    LET parts == Split(Chars(str), "/") IN
    /\ Len(parts) = 2
    /\ Word(parts[1], allowedPlatforms)

checkTargetFormat(str) ==
    LET parts == Split(Chars(str), "/") IN
    /\ Len(parts) = 2
    /\ Word(parts[1], allowedPlatforms)
    /\ Word(parts[2], allowedArchitectures)

\* /^[a-zA-Z_][a-zA-Z0-9_]*(=.+)?$/
checkEnvironmentVariableFormat(str) ==
    LET cs == Chars(str)
        eq == IndexOf(cs, "=")
        key == IF eq = 0 THEN cs ELSE SubSeq(cs, 1, eq - 1)
    IN /\ Len(key) > 0
       /\ key[1] \in Lower \cup Upper \cup {"_"}
       /\ AllIn(key, AlNum \cup {"_"})
       /\ eq > 0 => eq < Len(cs)

----------------------------------------------------------------------------
(* constants.tsx                                                           *)

\* a table that also lets an event trigger reach an event by a soft link
allowedConnections_EventSoft ==
    [k \in { STORED_PROCEDURE \o "-" \o DATA_SOURCE,
             DATA_SOURCE \o "-" \o STORED_PROCEDURE,
             DATA_SOURCE \o "-" \o EVENT_TRIGGER,
             EVENT_TRIGGER \o "-" \o DATA_SOURCE,
             EVENT_TRIGGER \o "-" \o EVENT } |->
        IF k = EVENT_TRIGGER \o "-" \o EVENT
        THEN <<EVENT_LINK, SOFT_LINK>>
        ELSE <<SOFT_LINK, HARD_LINK>>]

\* an event link allowed out of an event as well
allowedConnections_EventSource ==
    [k \in { STORED_PROCEDURE \o "-" \o DATA_SOURCE,
             DATA_SOURCE \o "-" \o STORED_PROCEDURE,
             DATA_SOURCE \o "-" \o EVENT_TRIGGER,
             EVENT_TRIGGER \o "-" \o DATA_SOURCE,
             EVENT_TRIGGER \o "-" \o EVENT,
             EVENT \o "-" \o EVENT_TRIGGER } |->
        IF k \in {EVENT_TRIGGER \o "-" \o EVENT, EVENT \o "-" \o EVENT_TRIGGER}
        THEN <<EVENT_LINK>>
        ELSE <<SOFT_LINK, HARD_LINK>>]

\* keyed by from.type + "-" + to.type
allowedConnections ==
    [k \in { STORED_PROCEDURE \o "-" \o DATA_SOURCE,
             DATA_SOURCE \o "-" \o STORED_PROCEDURE,
             DATA_SOURCE \o "-" \o EVENT_TRIGGER,
             EVENT_TRIGGER \o "-" \o DATA_SOURCE,
             EVENT_TRIGGER \o "-" \o EVENT } |->
        IF k = EVENT_TRIGGER \o "-" \o EVENT
        THEN <<EVENT_LINK>>
        ELSE <<SOFT_LINK, HARD_LINK>>]

\* array.includes(v)
Includes(seq, v) == \E i \in 1..Len(seq) : seq[i] = v

----------------------------------------------------------------------------
(* SemanticVisitor.  A diagnostic is the record the visitor reports; rule  *)
(* names the report call (its message template), details the reported      *)
(* value.  The random id of a diagnostic is left out.                      *)

Diag(nodeId, severity, rule, details) ==
    [nodeId |-> nodeId, severity |-> severity, rule |-> rule, details |-> details]

When(cond, d) == IF cond THEN <<d>> ELSE <<>>

checkNodeName(node) ==
    ~(FalsyStr(node, "name") \/ ~isAlphanumeric(node["name"]))

checkDataSourcePath(node) ==
    ~(FalsyStr(node, "path") \/ ~checkPathFormat(node["path"]))

checkDataSourceResourceName(node) ==
    ~(FalsyStr(node, "resourceName") \/ ~isAlphanumeric(node["resourceName"]))

\* a check that leaves an omitted dataType omitted
DefaultDataType_LeftUnset(node) == node

\* the node after the call: dataType defaults to "file"
DefaultDataType(node) ==
    IF FalsyStr(node, "dataType") THEN Put(node, "dataType", "file") ELSE node

checkDataSourceDataType(node) ==
    FalsyStr(node, "dataType") \/ node["dataType"] \in {"file", "folder"}

checkDataSourceDescription(node) == TRUE

checkUniKernelImage(node) ==
    ~(FalsyStr(node, "image") \/ ~checkImageFormat(node["image"]))

checkUniKernelArgs(node) == TRUE

checkUniKernelPrefix(node) ==
    FalsyStr(node, "prefix") \/ isAlphanumeric(node["prefix"])

\* a flag set to false whatever it held
DefaultFlag_AlwaysFalse(node, f) == Put(node, f, FALSE)

\* the node after checkUniKernelDisableVirt, checkUniKernelRunDetached and
\* checkUniKernelRemoveOnStop: each falsy flag becomes false
DefaultFlag(node, f) == IF FalsyBool(node, f) THEN Put(node, f, FALSE) ELSE node

DefaultFlags(node) ==
    DefaultFlag(DefaultFlag(DefaultFlag(node, "disableVirt"), "runDetached"), "removeOnStop")

checkUniKernelNetworks(node) ==
    IF NoEntries(node, "networks") THEN <<>>
    ELSE SelectSeq(node["networks"], LAMBDA e : ~checkNetworkFormat(e))

checkUniKernelPorts(node) ==
    IF NoEntries(node, "ports") THEN <<>>
    ELSE SelectSeq(node["ports"], LAMBDA e : ~checkPortMappingFormat(e))

checkUniKernelVolumes(node) ==
    IF NoEntries(node, "volumes") THEN <<>>
    ELSE SelectSeq(node["volumes"], LAMBDA e : ~checkVolumeFormat(e))

checkUniKernelTargets(node) ==
    IF NoEntries(node, "targets") THEN <<>>
    ELSE SelectSeq(node["targets"], LAMBDA e : ~checkTargetFormat(e))

checkUniKernelEnvVars(node) ==
    IF NoEntries(node, "envVars") THEN <<>>
    ELSE SelectSeq(node["envVars"], LAMBDA e : ~checkEnvironmentVariableFormat(e))

checkUniKernelMemory(node) ==
    FalsyStr(node, "memory") \/ checkMemoryFormat(node["memory"])

checkEventTopic(node) ==
    ~(FalsyStr(node, "topic") \/ ~isAlphanumeric(node["topic"]))

\* a repeated name reported as an error
DuplicateName_AsError(node, names) ==
    When(node["name"] \in names, Diag(node["id"], ERROR, "duplicate name", <<>>))

\* visitNode: the warning for a name that was seen before
DuplicateName(node, names) ==
    When(node["name"] \in names, Diag(node["id"], WARNING, "duplicate name", <<>>))

\* the diagnostics visitNode reports for node, in report order, given the names
\* seen before it
SemanticNodeDiagnostics(node, names) ==
    LET id == node["id"]
        common ==
            When(~checkNodeName(node), Diag(id, ERROR, "invalid name", <<>>))
            \o DuplicateName(node, names)
        dataSource ==
            When(~checkDataSourcePath(node), Diag(id, ERROR, "invalid path", <<>>))
            \o When(~checkDataSourceResourceName(node),
                    Diag(id, ERROR, "invalid resource name", <<>>))
            \o When(~checkDataSourceDataType(node), Diag(id, ERROR, "invalid data type", <<>>))
            \o When(~checkDataSourceDescription(node),
                    Diag(id, ERROR, "invalid description", <<>>))
        uniKernel ==
            When(~checkUniKernelImage(node), Diag(id, ERROR, "invalid image", <<>>))
            \o When(~checkUniKernelArgs(node), Diag(id, ERROR, "invalid kernel arguments", <<>>))
            \o When(~checkUniKernelPrefix(node), Diag(id, ERROR, "invalid prefix", <<>>))
            \o When(Len(checkUniKernelNetworks(node)) > 0,
                    Diag(id, ERROR, "invalid networks", checkUniKernelNetworks(node)))
            \o When(Len(checkUniKernelPorts(node)) > 0,
                    Diag(id, ERROR, "invalid port mappings", checkUniKernelPorts(node)))
            \o When(Len(checkUniKernelVolumes(node)) > 0,
                    Diag(id, ERROR, "invalid volumes", checkUniKernelVolumes(node)))
            \o When(Len(checkUniKernelTargets(node)) > 0,
                    Diag(id, ERROR, "invalid targets", checkUniKernelTargets(node)))
            \o When(Len(checkUniKernelEnvVars(node)) > 0,
                    Diag(id, ERROR, "invalid environment variables", checkUniKernelEnvVars(node)))
            \o When(~checkUniKernelMemory(node), Diag(id, ERROR, "invalid memory data", <<>>))
        event ==
            When(node["type"] = EVENT /\ ~checkEventTopic(node),
                 Diag(id, ERROR, "invalid topic", <<>>))
    IN common \o (IF node["type"] = DATA_SOURCE THEN dataSource ELSE uniKernel \o event)

\* the node as visitNode leaves it
SemanticNodeDefaults(node) ==
    IF node["type"] = DATA_SOURCE THEN DefaultDataType(node) ELSE DefaultFlags(node)

\* a key that keeps the direction: [from.id, to.id].join("-")
EdgeKey_Directed(a, b) == a \o "-" \o b

\* [from.id, to.id].sort().join("-")
EdgeKey(a, b) == IF StrLess(b, a) THEN b \o "-" \o a ELSE a \o "-" \o b

\* map.get(k) ?? 0
CountOf(counts, k) == IF k \in DOMAIN counts THEN counts[k] ELSE 0

\* bookkeeping that reports from the third hard link on
HardLinkStep_OffByOne(st, id) ==
    IF CountOf(st.counts, id) >= 2
    THEN [counts |-> st.counts,
          diags |-> Append(st.diags, Diag(id, ERROR, "multiple hard links", <<>>))]
    ELSE [counts |-> Put(st.counts, id, CountOf(st.counts, id) + 1), diags |-> st.diags]

\* the hard-link bookkeeping of visitEdge for one endpoint that is a data source
HardLinkStep(st, id) ==
    IF CountOf(st.counts, id) >= 1
    THEN [counts |-> st.counts,
          diags |-> Append(st.diags, Diag(id, ERROR, "multiple hard links", <<>>))]
    ELSE [counts |-> Put(st.counts, id, CountOf(st.counts, id) + 1), diags |-> st.diags]

\* a visitEdge that looks for self-loops among hard links only
SemanticEdge_SelfLoopHardOnly(edgeType, from, to, seen, counts) ==
    LET edgeKey == EdgeKey(from["id"], to["id"])
        linkCombination == from["type"] \o "-" \o to["type"]
        allowed == IF linkCombination \in DOMAIN allowedConnections
                   THEN allowedConnections[linkCombination] ELSE <<>>
        first ==
            When(edgeType = HARD_LINK /\ from["id"] = to["id"], Diag(from["id"], ERROR, "self-loop", <<>>))
            \o When(edgeKey \in seen, Diag(from["id"], ERROR, "multiple edges", <<>>))
            \o When(~Includes(allowed, edgeType),
                    Diag(from["id"], ERROR, "invalid connection", <<>>))
        s0 == [counts |-> counts, diags |-> first]
        s1 == IF edgeType = HARD_LINK /\ to["type"] = DATA_SOURCE
              THEN HardLinkStep(s0, to["id"]) ELSE s0
        s2 == IF edgeType = HARD_LINK /\ from["type"] = DATA_SOURCE
              THEN HardLinkStep(s1, from["id"]) ELSE s1
    IN [diags |-> s2.diags, seenEdges |-> seen \cup {edgeKey}, hardLinkCounts |-> s2.counts]

\* visitEdge: the diagnostics reported, in order, and the visitor's state after
SemanticEdge(edgeType, from, to, seen, counts) ==
    LET edgeKey == EdgeKey(from["id"], to["id"])
        linkCombination == from["type"] \o "-" \o to["type"]
        allowed == IF linkCombination \in DOMAIN allowedConnections
                   THEN allowedConnections[linkCombination] ELSE <<>>
        first ==
            When(from["id"] = to["id"], Diag(from["id"], ERROR, "self-loop", <<>>))
            \o When(edgeKey \in seen, Diag(from["id"], ERROR, "multiple edges", <<>>))
            \o When(~Includes(allowed, edgeType),
                    Diag(from["id"], ERROR, "invalid connection", <<>>))
        s0 == [counts |-> counts, diags |-> first]
        s1 == IF edgeType = HARD_LINK /\ to["type"] = DATA_SOURCE
              THEN HardLinkStep(s0, to["id"]) ELSE s0
        s2 == IF edgeType = HARD_LINK /\ from["type"] = DATA_SOURCE
              THEN HardLinkStep(s1, from["id"]) ELSE s1
    IN [diags |-> s2.diags, seenEdges |-> seen \cup {edgeKey}, hardLinkCounts |-> s2.counts]

----------------------------------------------------------------------------
(* GraphAnalyzer                                                           *)

\* nodeMap.get(id): the position of the node the map holds for id (the last one
\* of the graph with that id), 0 for undefined
NodeMapGet(graph, id) ==
    IF \E i \in 1..Len(graph) : graph[i]["id"] = id
    THEN CHOOSE i \in 1..Len(graph) :
            graph[i]["id"] = id /\ \A j \in (i + 1)..Len(graph) : graph[j]["id"] # id
    ELSE 0

\* a pass 2 that reads the soft links of a node before its hard links
NodeEntries_SoftFirst(graph, i) ==
    LET Of(f, kind) == [j \in 1..Len(ArrayOf(graph[i], f)) |->
                           [from |-> i, kind |-> kind, to |-> graph[i][f][j]]]
    IN Of("softConnectedTo", SOFT_LINK) \o Of("connectedTo", HARD_LINK)
       \o Of("eventConnectedTo", EVENT_LINK)

\* the adjacency entries of one node in the order pass 2 reads them
NodeEntries(graph, i) ==
    LET Of(f, kind) == [j \in 1..Len(ArrayOf(graph[i], f)) |->
                           [from |-> i, kind |-> kind, to |-> graph[i][f][j]]]
    IN Of("connectedTo", HARD_LINK) \o Of("softConnectedTo", SOFT_LINK)
       \o Of("eventConnectedTo", EVENT_LINK)

RECURSIVE EntriesFrom(_, _)
EntriesFrom(graph, i) ==
    IF i > Len(graph) THEN <<>> ELSE NodeEntries(graph, i) \o EntriesFrom(graph, i + 1)

\* all adjacency entries in the order pass 2 reads them
Entries(graph) == EntriesFrom(graph, 1)

\* a pass 2 that finds a destination only among the nodes up to the one read
Resolvable_EarlierOnly(graph) ==
    LET es == Entries(graph)
        kept == SelectSeq(es, LAMBDA e : NodeMapGet(graph, e.to) # 0
                                          /\ NodeMapGet(graph, e.to) <= e.from)
    IN [k \in 1..Len(kept) |->
           [from |-> kept[k].from, kind |-> kept[k].kind, to |-> NodeMapGet(graph, kept[k].to)]]

\* the adjacency entries of the graph whose destination is a node of the graph,
\* in the order pass 2 reads them, each with the position of its destination
Resolvable(graph) ==
    LET es == Entries(graph)
        kept == SelectSeq(es, LAMBDA e : NodeMapGet(graph, e.to) # 0)
    IN [k \in 1..Len(kept) |->
           [from |-> kept[k].from, kind |-> kept[k].kind, to |-> NodeMapGet(graph, kept[k].to)]]

RECURSIVE GroupFrom(_, _, _)
\* the grouping loop of run: one entry per node in first-report order
GroupFrom(graph, diags, grouped) ==
    IF Len(diags) = 0 THEN grouped
    ELSE LET err == diags[1]
             node_id == IF Has(err, "nodeId") THEN err.nodeId ELSE "global"
             key == NodeMapGet(graph, node_id)
             at == IndexOf([k \in 1..Len(grouped) |-> grouped[k].node], key)
         IN IF key = 0 THEN GroupFrom(graph, Tail(diags), grouped)
            ELSE IF at = 0
            THEN GroupFrom(graph, Tail(diags),
                           Append(grouped, [node |-> key, diagnostics |-> <<err>>]))
            ELSE GroupFrom(graph, Tail(diags),
                           [grouped EXCEPT ![at].diagnostics = Append(@, err)])

groupedErrors(graph, diags) == GroupFrom(graph, diags, <<>>)

----------------------------------------------------------------------------
(* Serialization.tsx                                                       *)

\* a success check that lets warnings block too
checkSemanticAnalysisSuccess_AnySeverityBlocks(diagnosticsMap) ==
    ~\E k \in 1..Len(diagnosticsMap) :
        \E d \in 1..Len(diagnosticsMap[k].diagnostics) :
            diagnosticsMap[k].diagnostics[d].severity # INFO

\* diagnostics.some(d => d.severity === ERROR) in no list of the map
checkSemanticAnalysisSuccess(diagnosticsMap) ==
    ~\E k \in 1..Len(diagnosticsMap) :
        \E d \in 1..Len(diagnosticsMap[k].diagnostics) :
            diagnosticsMap[k].diagnostics[d].severity = ERROR

----------------------------------------------------------------------------
(* SerializationVisitor.  A section (dataSources, storedProcedures,        *)
(* eventTriggers, events) is the sequence of its [key, value] entries in   *)
(* insertion order.                                                        *)

RECURSIVE Join(_)
\* the string made of the characters cs
Join(cs) == IF Len(cs) = 0 THEN "" ELSE cs[1] \o Join(Tail(cs))

RECURSIVE NumberString(_)
\* `${n}` for a number n >= 0
NumberString(n) ==
    LET d == <<"0","1","2","3","4","5","6","7","8","9">>[(n % 10) + 1]
    IN IF n < 10 THEN d ELSE NumberString(n \div 10) \o d

RECURSIVE TrimLeft(_)
TrimLeft(cs) == IF Len(cs) > 0 /\ cs[1] \in Space THEN TrimLeft(Tail(cs)) ELSE cs

RECURSIVE TrimRight(_)
TrimRight(cs) ==
    IF Len(cs) > 0 /\ cs[Len(cs)] \in Space THEN TrimRight(SubSeq(cs, 1, Len(cs) - 1)) ELSE cs

\* str.trim()
Trim(cs) == TrimRight(TrimLeft(cs))

\* section[key]: the position of the entry, 0 for undefined
KeyIndex(section, key) == IndexOf([k \in 1..Len(section) |-> section[k].key], key)

\* section[key] = value
SetKey(section, key, value) ==
    IF KeyIndex(section, key) = 0
    THEN Append(section, [key |-> key, value |-> value])
    ELSE [section EXCEPT ![KeyIndex(section, key)].value = value]

RECURSIVE LabelPairs(_, _)
\* the constructor's loop over the labels: key=value strings become pairs
LabelPairs(labels, pairs) ==
    IF Len(labels) = 0 THEN pairs
    ELSE LET parts == Split(Chars(labels[1]), "=")
         IN IF Len(parts) = 2
            THEN LabelPairs(Tail(labels),
                            SetKey(pairs, Join(Trim(parts[1])), Join(Trim(parts[2]))))
            ELSE LabelPairs(Tail(labels), pairs)

\* constructor: this.schemaData
NewSchemaData(s) ==
    [apiVersion |-> IF Has(s, "apiVersion") THEN s["apiVersion"] ELSE "v1",
     schemaVersion |-> IF Has(s, "schemaVersion") THEN s["schemaVersion"] ELSE "v1",
     kind |-> IF Has(s, "kind") THEN s["kind"] ELSE "StarChart"]

\* constructor: this.chartMetadata
NewChartMetadata(s) ==
    [name |-> IF Has(s, "name") THEN s["name"] ELSE "Untitled Chart",
     maintainer |-> IF Has(s, "maintainer") THEN s["maintainer"] ELSE "Anonymous",
     description |-> IF Has(s, "description") THEN s["description"] ELSE "",
     visibility |-> IF Has(s, "visibility") THEN s["visibility"] ELSE "public",
     engine |-> IF Has(s, "engine") THEN s["engine"] ELSE "unikraft",
     labels |-> LabelPairs(ArrayOf(s, "labels"), <<>>)]

EmptySections ==
    [dataSources |-> <<>>, storedProcedures |-> <<>>, eventTriggers |-> <<>>, events |-> <<>>]

getDeterministicName(kind, index) ==
    CASE kind = DATA_SOURCE -> "datasource_" \o NumberString(index + 1)
      [] kind = STORED_PROCEDURE -> "procedure_" \o NumberString(index + 1)
      [] kind = EVENT_TRIGGER -> "trigger_" \o NumberString(index + 1)
      [] kind = EVENT -> "event_" \o NumberString(index + 1)

\* the section visitNode and visitEdge use for a node type
SectionOf(kind) ==
    CASE kind = DATA_SOURCE -> "dataSources"
      [] kind = STORED_PROCEDURE -> "storedProcedures"
      [] kind = EVENT_TRIGGER -> "eventTriggers"
      [] kind = EVENT -> "events"

\* o[f] = src[g] if src[g] is a non-empty string
PutStr(o, f, src, g) == IF FalsyStr(src, g) THEN o ELSE Put(o, f, src[g])

\* o[f] = src[f] if src[f] is a non-empty array
PutList(o, f, src) == IF NoEntries(src, f) THEN o ELSE Put(o, f, src[f])

\* visitNode: the data object of a data source
DataSourceData(ds) ==
    PutStr(PutStr(PutStr(
        PutFrom(PutFrom(PutFrom(<<>>, "id", ds, "id"), "name", ds, "name"), "type", ds, "dataType"),
        "path", ds, "path"), "resourceName", ds, "resourceName"), "description", ds, "description")

\* visitNode: the metadata, control and features objects of a workload
UniKernelMetadata(n) ==
    LET m == PutStr(PutStr(PutFrom(PutFrom(<<>>, "id", n, "id"), "name", n, "name"),
                           "image", n, "image"), "prefix", n, "prefix")
    IN IF n["type"] = EVENT THEN PutStr(m, "topic", n, "topic") ELSE m

UniKernelControl(n) ==
    PutStr(PutStr(
        PutFrom(PutFrom(PutFrom(<<>>, "disableVirtualization", n, "disableVirt"),
                        "runDetached", n, "runDetached"), "removeOnStop", n, "removeOnStop"),
        "memory", n, "memory"), "kernelArgs", n, "kernelArgs")

UniKernelFeatures(n) ==
    PutList(PutList(PutList(PutList(PutList(<<>>, "networks", n), "ports", n),
                            "volumes", n), "targets", n), "envVars", n)

EmptyLinks == [softLinks |-> <<>>, hardLinks |-> <<>>, eventLinks |-> <<>>]

\* visitNode: the data object of a workload.  metadata and control always hold
\* keys (control holds its three flags even when they are undefined)
UniKernelData(n) ==
    LET d0 == [metadata |-> UniKernelMetadata(n), control |-> UniKernelControl(n)]
        d1 == IF DOMAIN UniKernelFeatures(n) # {}
              THEN Put(d0, "features", UniKernelFeatures(n)) ELSE d0
    IN IF n["type"] = EVENT THEN d1 ELSE Put(d1, "links", EmptyLinks)

\* visitNode: the visitor's state after the call
\* visitNode that leaves the counter of the node's type as it was
SerializationNode_CounterKept(node, counters, names, secs) ==
    LET kind == node["type"]
        idx == CountOf(counters, kind)
        name == getDeterministicName(kind, idx)
        data == IF kind = DATA_SOURCE THEN DataSourceData(node) ELSE UniKernelData(node)
    IN [shapeCounters |-> counters,
        nameMap |-> Put(names, node["id"], name),
        sections |-> [secs EXCEPT ![SectionOf(kind)] = SetKey(@, name, data)]]

SerializationNode(node, counters, names, secs) ==
    LET kind == node["type"]
        idx == CountOf(counters, kind)
        name == getDeterministicName(kind, idx)
        data == IF kind = DATA_SOURCE THEN DataSourceData(node) ELSE UniKernelData(node)
    IN [shapeCounters |-> Put(counters, kind, idx + 1),
        nameMap |-> Put(names, node["id"], name),
        sections |-> [secs EXCEPT ![SectionOf(kind)] = SetKey(@, name, data)]]

LinkBucket(edgeType) ==
    CASE edgeType = HARD_LINK -> "hardLinks"
      [] edgeType = SOFT_LINK -> "softLinks"
      [] edgeType = EVENT_LINK -> "eventLinks"

\* { destination: nameMap.get(destination.id) }
LinkTo(names, id) == IF id \in DOMAIN names THEN [destination |-> names[id]] ELSE <<>>

\* visitEdge that swaps the source of a link out of a data source but keeps
\* the destination
SerializationEdge_DestinationKept(edgeType, from, to, names, secs) ==
    LET swap == edgeType \in {HARD_LINK, SOFT_LINK} /\ from["type"] = DATA_SOURCE
        source == IF swap THEN to ELSE from
        destination == to
        nodeName == IF source["id"] \in DOMAIN names THEN names[source["id"]] ELSE "unknown"
        sec == SectionOf(source["type"])
        at == KeyIndex(secs[sec], nodeName)
    IN IF at = 0 THEN [sections |-> secs, thrown |-> FALSE]
       ELSE IF ~Has(secs[sec][at].value, "links") THEN [sections |-> secs, thrown |-> TRUE]
       ELSE [sections |->
                [secs EXCEPT ![sec][at].value["links"][LinkBucket(edgeType)] =
                    Append(@, LinkTo(names, destination["id"]))],
             thrown |-> FALSE]

\* visitEdge that records a link only in a bucket that holds none yet
SerializationEdge_FirstLinkOnly(edgeType, from, to, names, secs) ==
    LET swap == edgeType \in {HARD_LINK, SOFT_LINK} /\ from["type"] = DATA_SOURCE
        source == IF swap THEN to ELSE from
        destination == IF swap THEN from ELSE to
        nodeName == IF source["id"] \in DOMAIN names THEN names[source["id"]] ELSE "unknown"
        sec == SectionOf(source["type"])
        at == KeyIndex(secs[sec], nodeName)
    IN IF at = 0 THEN [sections |-> secs, thrown |-> FALSE]
       ELSE IF ~Has(secs[sec][at].value, "links") THEN [sections |-> secs, thrown |-> TRUE]
       ELSE [sections |->
                [secs EXCEPT ![sec][at].value["links"][LinkBucket(edgeType)] =
                    IF Len(@) = 0 THEN Append(@, LinkTo(names, destination["id"])) ELSE @],
             thrown |-> FALSE]

\* visitEdge: the sections after the call, and whether the call threw (a push
\* into the links of a data object that has none)
SerializationEdge(edgeType, from, to, names, secs) ==
    LET swap == edgeType \in {HARD_LINK, SOFT_LINK} /\ from["type"] = DATA_SOURCE
        source == IF swap THEN to ELSE from
        destination == IF swap THEN from ELSE to
        nodeName == IF source["id"] \in DOMAIN names THEN names[source["id"]] ELSE "unknown"
        sec == SectionOf(source["type"])
        at == KeyIndex(secs[sec], nodeName)
    IN IF at = 0 THEN [sections |-> secs, thrown |-> FALSE]
       ELSE IF ~Has(secs[sec][at].value, "links") THEN [sections |-> secs, thrown |-> TRUE]
       ELSE [sections |->
                [secs EXCEPT ![sec][at].value["links"][LinkBucket(edgeType)] =
                    Append(@, LinkTo(names, destination["id"]))],
             thrown |-> FALSE]

\* assembleOutput: the links of one stored procedure or event trigger, cleaned
CleanLinks(data) ==
    IF ~Has(data, "links") THEN data
    ELSE LET l0 == data["links"]
             Drop(l, f) == IF Has(l, f) /\ Len(l[f]) = 0 THEN Remove(l, f) ELSE l
             l3 == Drop(Drop(Drop(l0, "hardLinks"), "softLinks"), "eventLinks")
         IN IF DOMAIN l3 = {} THEN Remove(data, "links") ELSE Put(data, "links", l3)

CleanSection(section) ==
    [k \in 1..Len(section) |-> [key |-> section[k].key, value |-> CleanLinks(section[k].value)]]

\* assembleOutput: the sections as the cleaning loops leave them
CleanSections(secs) ==
    [secs EXCEPT !["storedProcedures"] = CleanSection(@),
                 !["eventTriggers"] = CleanSection(@)]

\* o[f] = s if the string s is non-empty
PutIfStr(o, f, str) == IF str = "" THEN o ELSE Put(o, f, str)

\* assembleOutput: this.output
assembleOutput(schema, chartMeta, secs) ==
    LET data == [apiVersion |-> schema.apiVersion, schemaVersion |-> schema.schemaVersion,
                 kind |-> schema.kind]
        m5 == PutIfStr(PutIfStr(PutIfStr(PutIfStr(PutIfStr(<<>>,
                  "name", chartMeta.name), "maintainer", chartMeta.maintainer),
                  "description", chartMeta.description), "visibility", chartMeta.visibility),
                  "engine", chartMeta.engine)
        metadata == IF Len(chartMeta.labels) > 0 THEN Put(m5, "labels", chartMeta.labels) ELSE m5
        cleaned == CleanSections(secs)
        PutSection(c, f) == IF Len(cleaned[f]) > 0 THEN Put(c, f, cleaned[f]) ELSE c
        chart == PutSection(PutSection(PutSection(PutSection(<<>>,
                     "dataSources"), "storedProcedures"), "eventTriggers"), "events")
        d1 == IF DOMAIN metadata # {} THEN Put(data, "metadata", metadata) ELSE data
    IN IF DOMAIN chart # {} THEN Put(d1, "chart", chart) ELSE d1

----------------------------------------------------------------------------
(* Deserialization.  A document is the tree yaml.load returns: the tree    *)
(* yaml.dump was given, without the properties that held undefined.        *)

\* an array entry that holds undefined
Undefined == "<undefined>"

\* the k-th identifier uuidv4() generates
Uuid(k) == "u" \o NumberString(k)

\* id && id.trim().length > 0
HasID(obj) == ~FalsyStr(obj, "id") /\ Len(Trim(Chars(obj["id"]))) > 0

\* obj.f ?? {}
ObjectOf(obj, f) == IF Has(obj, f) THEN obj[f] ELSE <<>>

\* the entries of the four sections in the order both passes read them
ChartEntries(chart) ==
    LET Of(f, kind) == [k \in 1..Len(ArrayOf(chart, f)) |->
                           [type |-> kind, key |-> chart[f][k].key, value |-> chart[f][k].value]]
    IN Of("dataSources", DATA_SOURCE) \o Of("storedProcedures", STORED_PROCEDURE)
       \o Of("eventTriggers", EVENT_TRIGGER) \o Of("events", EVENT)

RECURSIVE CheckedIDs(_, _)
\* pass 1: obj.id = checkID(obj.id) for every entry, with n identifiers generated before
CheckedIDs(entries, n) ==
    IF Len(entries) = 0 THEN <<>>
    ELSE IF HasID(entries[1].value)
    THEN <<entries[1].value["id"]>> \o CheckedIDs(Tail(entries), n)
    ELSE <<Uuid(n + 1)>> \o CheckedIDs(Tail(entries), n + 1)

\* the number of identifiers pass 1 generates
GeneratedIDs(entries) == Cardinality({k \in 1..Len(entries) : ~HasID(entries[k].value)})

\* nameToIdMap.get(name) after pass 1: the id of the last entry keyed name
NameToId(entries, ids, name) ==
    IF \E k \in 1..Len(entries) : entries[k].key = name
    THEN ids[CHOOSE k \in 1..Len(entries) :
                entries[k].key = name /\ \A j \in (k + 1)..Len(entries) : entries[j].key # name]
    ELSE Undefined

\* the links of all three buckets read for each bucket
LinkedIds_AnyBucket(obj, bucket, entries, ids) ==
    LET links == ArrayOf(ObjectOf(obj, "links"), "hardLinks")
                 \o ArrayOf(ObjectOf(obj, "links"), "softLinks")
                 \o ArrayOf(ObjectOf(obj, "links"), "eventLinks")
    IN [k \in 1..Len(links) |->
           IF Has(links[k], "destination")
           THEN NameToId(entries, ids, links[k]["destination"]) ELSE Undefined]

\* links read from the wrong level of the entry: never found
LinkedIds_NotFound(obj, bucket, entries, ids) == <<>>

\* obj.links?.[bucket]?.map(l => nameToIdMap.get(l.destination)) ?? []
LinkedIds(obj, bucket, entries, ids) ==
    LET links == ArrayOf(ObjectOf(obj, "links"), bucket)
    IN [k \in 1..Len(links) |->
           IF Has(links[k], "destination")
           THEN NameToId(entries, ids, links[k]["destination"]) ELSE Undefined]

\* pass 2: the node built for one entry
EntryNode(entry, id, entries, ids) ==
    LET obj == entry.value
        base == [id |-> id, type |-> entry.type, x |-> 0, y |-> 0,
                 connectedTo |-> LinkedIds(obj, "hardLinks", entries, ids),
                 softConnectedTo |-> LinkedIds(obj, "softLinks", entries, ids),
                 eventConnectedTo |-> LinkedIds(obj, "eventLinks", entries, ids)]
        md == ObjectOf(obj, "metadata")
        ct == ObjectOf(obj, "control")
        ft == ObjectOf(obj, "features")
        dataSource ==
            PutFrom(PutFrom(PutFrom(PutFrom(
                Put(base, "name", IF Has(obj, "name") THEN obj["name"] ELSE entry.key),
                "path", obj, "path"), "resourceName", obj, "resourceName"),
                "dataType", obj, "type"), "description", obj, "description")
        u2 == PutFrom(PutFrom(
                Put(base, "name", IF Has(md, "name") THEN md["name"] ELSE entry.key),
                "image", md, "image"), "prefix", md, "prefix")
        u3 == IF entry.type = EVENT THEN PutFrom(u2, "topic", md, "topic") ELSE u2
        u8 == PutFrom(PutFrom(PutFrom(PutFrom(PutFrom(u3,
                "disableVirt", ct, "disableVirtualization"), "runDetached", ct, "runDetached"),
                "removeOnStop", ct, "removeOnStop"), "memory", ct, "memory"),
                "kernelArgs", ct, "kernelArgs")
        uniKernel ==
            PutFrom(PutFrom(PutFrom(PutFrom(PutFrom(u8,
                "networks", ft, "networks"), "ports", ft, "ports"), "volumes", ft, "volumes"),
                "targets", ft, "targets"), "envVars", ft, "envVars")
    IN IF entry.type = DATA_SOURCE THEN dataSource ELSE uniKernel

\* deserializeGraph that builds each node as soon as its name is in the map
deserializeGraph_OnePass(parsed, n) ==
    LET entries == ChartEntries(ObjectOf(parsed, "chart"))
        ids == CheckedIDs(entries, n)
    IN [k \in 1..Len(entries) |->
           EntryNode(entries[k], ids[k], SubSeq(entries, 1, k), SubSeq(ids, 1, k))]

\* deserializeGraph on a parsed document, with n identifiers generated before
deserializeGraph(parsed, n) ==
    LET entries == ChartEntries(ObjectOf(parsed, "chart"))
        ids == CheckedIDs(entries, n)
    IN [k \in 1..Len(entries) |-> EntryNode(entries[k], ids[k], entries, ids)]

startX == 100
startY == 70
xGap == 250
yGap == 150
typeOrder == <<STORED_PROCEDURE, DATA_SOURCE, EVENT_TRIGGER, EVENT>>

\* layoutGraph: one column per type of typeOrder, the nodes of a type top to bottom
layoutGraph(graph) ==
    [i \in 1..Len(graph) |->
        LET col == IndexOf(typeOrder, graph[i]["type"]) - 1
            row == Cardinality({j \in 1..(i - 1) : graph[j]["type"] = graph[i]["type"]})
        IN Put(Put(graph[i], "x", startX + col * xGap), "y", startY + row * yGap)]

\* yaml.dump(output): the text of a document whose root is the object output
YamlDump(output) == [kind |-> "object", root |-> output]

\* an entry of a section that holds null
Null == [null |-> TRUE]

\* the entries pass 1 reads before the first one that holds null
BeforeNull(entries) ==
    IF \E k \in 1..Len(entries) : entries[k].value = Null
    THEN SubSeq(entries, 1, (CHOOSE k \in 1..Len(entries) :
                                entries[k].value = Null
                                /\ \A j \in 1..(k - 1) : entries[j].value # Null) - 1)
    ELSE entries

\* whether deserializeGraph throws on the text: yaml.load throws, or its result
\* is empty or no object, or pass 1 reads the id of an entry that holds null
DeserializationThrows(text) ==
    \/ text.kind # "object"
    \/ LET entries == ChartEntries(ObjectOf(text.root, "chart"))
       IN BeforeNull(entries) # entries

\* the number of identifiers deserializeGraph generates on the text
GeneratedFor(text) ==
    IF text.kind # "object" THEN 0
    ELSE GeneratedIDs(BeforeNull(ChartEntries(ObjectOf(text.root, "chart"))))

\* what a caller holds when an exception left the call instead of a graph
Raised == <<[raised |-> TRUE]>>

\* a performGraphDeserialization without its try and catch
performGraphDeserialization_Uncaught(text, n) ==
    IF DeserializationThrows(text) THEN Raised ELSE layoutGraph(deserializeGraph(text.root, n))

\* performGraphDeserialization: the empty graph when deserializeGraph threw
performGraphDeserialization(text, n) ==
    IF DeserializationThrows(text) THEN <<>> ELSE layoutGraph(deserializeGraph(text.root, n))

\* getGraphEdges: the lines of the three kinds, node by node; the random id of
\* a line is left out
getGraphEdges(graph) ==
    LET Of(kind) ==
            LET es == SelectSeq(Entries(graph), LAMBDA e : e.kind = kind)
            IN [k \in 1..Len(es) |-> [from |-> graph[es[k].from]["id"], to |-> es[k].to]]
    IN [lines |-> Of(HARD_LINK), softLines |-> Of(SOFT_LINK), eventLines |-> Of(EVENT_LINK)]

----------------------------------------------------------------------------
(* Serialization.tsx: a whole run as one function of the graph, for the    *)
(* callers that use its result at once.                                    *)

\* F of the one value in S, the value worked out before F is entered
With(S, F(_)) == CHOOSE r \in {F(v) : v \in S} : TRUE

RECURSIVE SemanticNodes(_, _, _)
\* pass 1 with the SemanticVisitor from node i on: the diagnostics reported
SemanticNodes(graph, i, names) ==
    IF i > Len(graph) THEN <<>>
    ELSE SemanticNodeDiagnostics(graph[i], names)
         \o With({names \cup {graph[i]["name"]}},
                 LAMBDA seen : SemanticNodes(graph, i + 1, seen))

RECURSIVE SemanticEdges(_, _, _, _, _)
\* pass 2 with the SemanticVisitor from the k-th visited entry on
SemanticEdges(graph, es, k, seen, counts) ==
    IF k > Len(es) THEN <<>>
    ELSE With({SemanticEdge(es[k].kind, graph[es[k].from], graph[es[k].to], seen, counts)},
              LAMBDA r : r.diags
                         \o SemanticEdges(graph, es, k + 1, r.seenEdges, r.hardLinkCounts))

\* the graph as the visitor leaves it, the diagnostics in report order and the
\* map run returns
Analysis(visited, diags) ==
    [graph |-> visited, diagnostics |-> diags, report |-> groupedErrors(visited, diags)]

\* performGraphSemanticAnalysis
performGraphSemanticAnalysis(graph) ==
    With({[i \in 1..Len(graph) |-> SemanticNodeDefaults(graph[i])]},
         LAMBDA visited :
            With({Resolvable(visited)},
                 LAMBDA es :
                    With({SemanticNodes(graph, 1, {})
                          \o SemanticEdges(visited, es, 1, {}, <<>>)},
                         LAMBDA diags : Analysis(visited, diags))))

RECURSIVE SerializationNodes(_, _, _)
\* pass 1 with the SerializationVisitor from node i on
SerializationNodes(graph, i, st) ==
    IF i > Len(graph) THEN st
    ELSE With({SerializationNode(graph[i], st.shapeCounters, st.nameMap, st.sections)},
              LAMBDA next : SerializationNodes(graph, i + 1, next))

RECURSIVE SerializationEdges(_, _, _, _, _)
\* pass 2 with the SerializationVisitor from the k-th visited entry on
SerializationEdges(graph, es, k, names, secs) ==
    IF k > Len(es) THEN [sections |-> secs, thrown |-> FALSE]
    ELSE With({SerializationEdge(es[k].kind, graph[es[k].from], graph[es[k].to], names, secs)},
              LAMBDA r : IF r.thrown THEN r
                         ELSE SerializationEdges(graph, es, k + 1, names, r.sections))

\* the serialization run on an analysed graph: refused on an error, ended by a
\* visitEdge that throws, or the document downloaded
Serialized(a, s) ==
    IF ~checkSemanticAnalysisSuccess(a.report)
    THEN [result |-> "refused", graph |-> a.graph, report |-> a.report]
    ELSE With({SerializationNodes(a.graph, 1,
                  [shapeCounters |-> [k \in EShapeType |-> 0], nameMap |-> <<>>,
                   sections |-> EmptySections])},
              LAMBDA st :
                 With({SerializationEdges(a.graph, Resolvable(a.graph), 1,
                                          st.nameMap, st.sections)},
                      LAMBDA r :
                         IF r.thrown
                         THEN [result |-> "thrown", graph |-> a.graph, report |-> a.report]
                         ELSE [result |-> "saved", graph |-> a.graph, report |-> a.report,
                               yaml |-> YamlDump(assembleOutput(NewSchemaData(s),
                                                                NewChartMetadata(s),
                                                                r.sections))]))

\* performGraphSerialization: what it returns, the graph and the report it
\* leaves, and the document it downloads
performGraphSerialization(graph, s) ==
    With({performGraphSemanticAnalysis(graph)}, LAMBDA a : Serialized(a, s))

----------------------------------------------------------------------------
(* The editor (App.tsx): the graphs and settings the engine is handed.     *)
(* Node ids are unique, as uuidv4 makes them; an adjacency list is absent  *)
(* until the first connection from the node; an entry may name a node that *)
(* was deleted since.  The presentation flag isSelected is left out.       *)

\* the ids uuidv4() gave the shapes of the editor, in creation order
NodeIds == <<"a", "b", "c">>

\* the id of a shape that was deleted
Deleted == "d"

\* the names the user gave the shapes, in creation order
NodeNames == <<"svc 1", "svc 2", "svc 3">>

\* {...shape, ...fields}: the modal saving its fields into a shape
Merge(shape, fields) ==
    [k \in DOMAIN shape \cup DOMAIN fields |-> IF k \in DOMAIN fields THEN fields[k] ELSE shape[k]]

\* addShape, then the name typed into the modal
NewShape(id, type, name) == [id |-> id, type |-> type, x |-> 100, y |-> 100, name |-> name]

\* the fields a modal must hold for the node to pass the analysis
RequiredFields(type) ==
    CASE type = DATA_SOURCE -> [path |-> "/data/in.csv", resourceName |-> "res1"]
      [] type = EVENT -> [image |-> "docker://img", topic |-> "topic1"]
      [] OTHER -> [image |-> "docker://img"]

\* the adjacency list handleShapeClick pushes a connection of a kind onto
ListOf(kind) ==
    CASE kind = HARD_LINK -> "connectedTo"
      [] kind = SOFT_LINK -> "softConnectedTo"
      [] kind = EVENT_LINK -> "eventConnectedTo"

\* handleShapeClick completing a connection: [...(s[list] || []), id]
Connect(graph, e) ==
    [graph EXCEPT ![e.from] = Put(@, ListOf(e.kind), Append(ArrayOf(@, ListOf(e.kind)), e.to))]

RECURSIVE ConnectAll(_, _)
ConnectAll(graph, es) ==
    IF Len(es) = 0 THEN graph ELSE ConnectAll(Connect(graph, es[1]), Tail(es))

\* the connections that can be drawn among the first n shapes
Connections(n) == [from : 1..n, kind : ELineType, to : {NodeIds[i] : i \in 1..n}]

\* the connections left behind by a shape that was deleted
Dangling(n) == [from : 1..n, kind : ELineType, to : {Deleted}]

\* up to MaxEdges connections, in the order they were drawn
ConnectionSeqs(n) == UNION {[1..k -> Connections(n)] : k \in 0..MaxEdges}

\* shapes of the given types, each holding the fields it requires
Shapes(types) ==
    [i \in 1..Len(types) |->
        Merge(NewShape(NodeIds[i], types[i], NodeNames[i]), RequiredFields(types[i]))]

\* graphs of two shapes of any types with up to MaxEdges connections
TwoShapeGraph(graph) ==
    \E types \in [1..2 -> EShapeType], es \in ConnectionSeqs(2) :
        graph = ConnectAll(Shapes(types), es)

\* graphs of two shapes of any types with a connection left behind by a deleted
\* shape, alone in its adjacency list or before or after a connection that is
\* still there
DanglingGraph(graph) ==
    \E types \in [1..2 -> EShapeType], d \in Dangling(2), to \in {Deleted, NodeIds[1], NodeIds[2]},
       first \in BOOLEAN :
        LET es == IF to = Deleted THEN <<>> ELSE <<[from |-> d.from, kind |-> d.kind, to |-> to]>>
        IN graph = ConnectAll(Shapes(types), IF first THEN <<d>> \o es ELSE es \o <<d>>)

\* up to MaxEdges hard links between different shapes, in the order they were
\* drawn, among three shapes
HardLinkSeqs ==
    UNION {[1..k -> {c \in Connections(3) : c.kind = HARD_LINK /\ c.to # NodeIds[c.from]}] :
              k \in 0..MaxEdges}

\* graphs of three shapes, none of them an event, with up to MaxEdges hard links
ThreeShapeGraph(graph) ==
    \E types \in [1..3 -> EShapeType \ {EVENT}], es \in HardLinkSeqs :
        graph = ConnectAll(Shapes(types), es)

\* what the data source modal can leave in a shape, and what a loaded document can
DataSourceFields ==
    LET required == RequiredFields(DATA_SOURCE)
    IN {required,
        Put(required, "dataType", "file"), Put(required, "dataType", "folder"),
        Put(required, "dataType", "zz"), Put(required, "dataType", ""),
        Put(required, "description", "notes"), Put(required, "description", ""),
        Put(required, "path", "bad path"), Put(required, "path", ""),
        Remove(required, "path"),
        Put(required, "resourceName", "res_1"), Remove(required, "resourceName"),
        [path |-> "/data/in.csv", resourceName |-> "res1", dataType |-> "folder",
         description |-> "notes"]}

\* what the unikernel modal can leave in a stored procedure or an event trigger
UniKernelFields ==
    LET required == RequiredFields(STORED_PROCEDURE)
    IN {required, <<>>, Put(required, "image", "img"), Put(required, "image", ""),
        Put(required, "prefix", "pre"), Put(required, "prefix", "pre!"),
        Put(required, "prefix", ""),
        Put(required, "memory", "128Mi"), Put(required, "memory", "128X"),
        Put(required, "kernelArgs", "quiet"),
        Put(required, "disableVirt", TRUE), Put(required, "runDetached", TRUE),
        Put(required, "removeOnStop", TRUE), Put(required, "runDetached", FALSE),
        Put(required, "networks", <<>>),
        Put(required, "networks", <<"net0:10.0.0.2/24">>),
        Put(required, "networks", <<"net0:10.0.0.2/24", "net0:10.0.0.256">>),
        Put(required, "ports", <<"80:8080">>), Put(required, "ports", <<"80:65536">>),
        Put(required, "volumes", <<"/h:/c">>), Put(required, "volumes", <<"/h">>),
        Put(required, "targets", <<"qemu/x86_64">>), Put(required, "targets", <<"qemu/arm">>),
        Put(required, "envVars", <<"KEY=v">>), Put(required, "envVars", <<"1KEY", "KEY=v">>),
        [image |-> "docker://img", prefix |-> "pre", memory |-> "128Mi",
         kernelArgs |-> "quiet", disableVirt |-> TRUE, runDetached |-> FALSE,
         removeOnStop |-> TRUE, networks |-> <<"net0:10.0.0.2/24">>, ports |-> <<"80:8080">>,
         volumes |-> <<"/h:/c">>, targets |-> <<"qemu/x86_64", "xen/arm64">>,
         envVars |-> <<"KEY=v">>]}

\* what the unikernel modal can leave in an event
EventFields ==
    {Put(f, "topic", "topic1") : f \in UniKernelFields}
    \cup {RequiredFields(STORED_PROCEDURE), Put(RequiredFields(EVENT), "topic", "top/ic"),
          Put(RequiredFields(EVENT), "topic", "")}

Fields(type) ==
    CASE type = DATA_SOURCE -> DataSourceFields
      [] type = EVENT -> EventFields
      [] OTHER -> UniKernelFields

\* graphs of one shape with any fields and a valid, an invalid or an empty name
OneShapeGraph(graph) ==
    \E type \in EShapeType :
        \E fields \in Fields(type), name \in {"svc 1", "svc#1", ""} :
            graph = <<Merge(NewShape(NodeIds[1], type, name), fields)>>

\* no connection, or one of three between the two shapes
OneConnection ==
    {<<>>, <<[from |-> 1, kind |-> HARD_LINK, to |-> NodeIds[2]]>>,
     <<[from |-> 2, kind |-> SOFT_LINK, to |-> NodeIds[1]]>>,
     <<[from |-> 1, kind |-> EVENT_LINK, to |-> NodeIds[2]]>>}

\* graphs of a shape with any fields and a shape with the required fields, named
\* alike or not, in either order, with at most one connection
FieldGraph(graph) ==
    \E type \in EShapeType, other \in EShapeType, name \in {NodeNames[1], NodeNames[2]},
       first \in BOOLEAN, es \in OneConnection :
        \E fields \in Fields(type) :
            graph = ConnectAll(
                IF first
                THEN <<Merge(NewShape(NodeIds[1], type, NodeNames[1]), fields),
                       Merge(NewShape(NodeIds[2], other, name), RequiredFields(other))>>
                ELSE <<Merge(NewShape(NodeIds[1], other, name), RequiredFields(other)),
                       Merge(NewShape(NodeIds[2], type, NodeNames[1]), fields)>>,
                es)

\* the initial settings of App
DefaultSettings ==
    [apiVersion |-> "v1", schemaVersion |-> "v1", kind |-> "StarChart", engine |-> "unikraft",
     visibility |-> "public", name |-> "Untitled Chart", maintainer |-> "Anonymous",
     description |-> "", labels |-> <<>>]

\* what the settings modal can leave in the settings
SettingsChoices ==
    {DefaultSettings,
     [DefaultSettings EXCEPT !.description = "notes", !.labels = <<"env=prod">>],
     [DefaultSettings EXCEPT !.labels = <<"env=prod", "team = core", "nolabel">>],
     [DefaultSettings EXCEPT !.name = "", !.maintainer = "", !.visibility = "", !.engine = ""]}

\* the graphs the settings are varied with: the empty one and two valid ones
SettingsGraphs ==
    {<<>>, Shapes(<<DATA_SOURCE>>),
     ConnectAll(Shapes(<<STORED_PROCEDURE, DATA_SOURCE>>),
                <<[from |-> 1, kind |-> HARD_LINK, to |-> NodeIds[2]]>>)}

\* deleteSelected: the hard or soft lines left when the shape was deleted
Undeleted(ls) == SelectSeq(ls, LAMBDA l : l.to # Deleted)

\* the content before any file was read
NoFile == [kind |-> "none"]

\* the lines the editor holds for the connections drawn in the graph, and no
\* file read yet
NoUpload(graph) ==
    /\ lines = Undeleted(getGraphEdges(graph).lines)
    /\ softLines = Undeleted(getGraphEdges(graph).softLines)
    /\ eventLines = getGraphEdges(graph).eventLines
    /\ content = NoFile
    /\ deserializationError = ""

\* nothing has run yet
Quiescent ==
    /\ pc = "idle"
    /\ visitor = "none"
    /\ ni = 0
    /\ ei = 0
    /\ diagnostics = <<>>
    /\ nodeNames = {}
    /\ seenEdges = {}
    /\ hardLinkCounts = <<>>
    /\ shapeCounters = <<>>
    /\ nameMap = <<>>
    /\ sections = EmptySections
    /\ schemaData = <<>>
    /\ chartMetadata = <<>>
    /\ report = <<>>
    /\ result = "none"
    /\ yamls = <<>>
    /\ loaded = <<>>
    /\ uuidCount = 0
    /\ calls = <<>>
    /\ loads = 0
    /\ runs = 0

\* the editor holding a graph whose shapes vary in their fields and names, or
\* three shapes with hard links, or a small graph under any settings
Init ==
    /\ \/ /\ \/ OneShapeGraph(shapes)
             \/ FieldGraph(shapes)
             \/ DanglingGraph(shapes)
             \/ ThreeShapeGraph(shapes)
          /\ settings = DefaultSettings
       \/ /\ shapes \in SettingsGraphs
          /\ settings \in SettingsChoices
    /\ initial = shapes
    /\ NoUpload(shapes)
    /\ Quiescent
    /\ reordered = <<>>

\* the editor holding a graph whose connections vary
InitConnections ==
    /\ \/ TwoShapeGraph(shapes)
       \/ ThreeShapeGraph(shapes)
       \/ DanglingGraph(shapes)
    /\ settings = DefaultSettings
    /\ initial = shapes
    /\ NoUpload(shapes)
    /\ Quiescent
    /\ reordered = <<>>

----------------------------------------------------------------------------
(* The program: performGraphSerialization on the editor's graph, one       *)
(* action per visitor callback, and performGraphDeserialization on the     *)
(* document it downloaded.                                                 *)

\* where run stands with ni nodes and ei entries still ahead
PcAt(graph, n, e) ==
    IF n <= Len(graph) THEN "nodes"
    ELSE IF e <= Len(Entries(graph)) THEN "edges"
    ELSE "exit"

\* performGraphSerialization up to the first callback of the analysis run:
\* a new GraphAnalyzer, a new SemanticVisitor, run() resets and calls enterGraph
StartSerialization ==
    /\ pc = "idle"
    /\ Len(yamls) < MaxSaves
    /\ result' = "none"
    /\ visitor' = "semantic"
    /\ diagnostics' = <<>>
    /\ nodeNames' = {}
    /\ seenEdges' = {}
    /\ hardLinkCounts' = <<>>
    /\ calls' = <<[call |-> "enterGraph"]>>
    /\ ni' = 1
    /\ ei' = 1
    /\ pc' = PcAt(shapes, 1, 1)
    /\ UNCHANGED << shapes, settings, shapeCounters, nameMap, sections, schemaData,
                    chartMetadata, report, yamls, loaded, uuidCount, loads, initial, upload, runs, reordered >>

\* pass 1 of run with the SemanticVisitor: visitNode(graph[ni])
SemanticVisitNode ==
    /\ pc = "nodes"
    /\ visitor = "semantic"
    /\ diagnostics' = diagnostics \o SemanticNodeDiagnostics(shapes[ni], nodeNames)
    /\ nodeNames' = nodeNames \cup {shapes[ni]["name"]}
    /\ shapes' = [shapes EXCEPT ![ni] = SemanticNodeDefaults(@)]
    /\ calls' = Append(calls, [call |-> "visitNode", node |-> ni])
    /\ ni' = ni + 1
    /\ pc' = PcAt(shapes, ni + 1, ei)
    /\ UNCHANGED << settings, visitor, ei, seenEdges, hardLinkCounts, shapeCounters,
                    nameMap, sections, schemaData, chartMetadata, report, result, yamls,
                    loaded, uuidCount, loads, initial, upload, runs, reordered >>

\* pass 2 of run with the SemanticVisitor: one adjacency entry, visited if its
\* destination is in the node map
SemanticVisitEdge ==
    /\ pc = "edges"
    /\ visitor = "semantic"
    /\ LET e == Entries(shapes)[ei]
           neighbor == NodeMapGet(shapes, e.to)
           r == SemanticEdge(e.kind, shapes[e.from], shapes[neighbor], seenEdges, hardLinkCounts)
       IN IF neighbor # 0
          THEN /\ diagnostics' = diagnostics \o r.diags
               /\ seenEdges' = r.seenEdges
               /\ hardLinkCounts' = r.hardLinkCounts
               /\ calls' = Append(calls, [call |-> "visitEdge", kind |-> e.kind,
                                          from |-> e.from, to |-> neighbor])
          ELSE UNCHANGED << diagnostics, seenEdges, hardLinkCounts, calls >>
    /\ ei' = ei + 1
    /\ pc' = PcAt(shapes, ni, ei + 1)
    /\ UNCHANGED << shapes, settings, visitor, ni, nodeNames, shapeCounters, nameMap,
                    sections, schemaData, chartMetadata, report, result, yamls, loaded,
                    uuidCount, loads, initial, upload, runs, reordered >>

\* the end of the analysis run: exitGraph, then the diagnostics grouped by node
\* and returned to performGraphSerialization
SemanticExit ==
    /\ pc = "exit"
    /\ visitor = "semantic"
    /\ report' = groupedErrors(shapes, diagnostics)
    /\ calls' = Append(calls, [call |-> "exitGraph"])
    /\ pc' = "check"
    /\ UNCHANGED << shapes, settings, visitor, ni, ei, diagnostics, nodeNames, seenEdges,
                    hardLinkCounts, shapeCounters, nameMap, sections, schemaData,
                    chartMetadata, result, yamls, loaded, uuidCount, loads, initial, upload, runs, reordered >>

\* an error found, but the return is missing: the serialization run begins
Refuse_FallsThrough ==
    /\ pc = "check"
    /\ ~checkSemanticAnalysisSuccess(report)
    /\ visitor' = "serialization"
    /\ schemaData' = NewSchemaData(settings)
    /\ chartMetadata' = NewChartMetadata(settings)
    /\ sections' = EmptySections
    /\ diagnostics' = <<>>
    /\ nameMap' = <<>>
    /\ shapeCounters' = [k \in EShapeType |-> 0]
    /\ calls' = <<[call |-> "enterGraph"]>>
    /\ ni' = 1
    /\ ei' = 1
    /\ pc' = PcAt(shapes, 1, 1)
    /\ UNCHANGED << shapes, settings, nodeNames, seenEdges, hardLinkCounts, report,
                    result, yamls, loaded, uuidCount, loads, initial, upload, runs, reordered >>

\* performGraphSerialization: the analysis found an error, return false
Refuse ==
    /\ pc = "check"
    /\ ~checkSemanticAnalysisSuccess(report)
    /\ result' = "refused"
    /\ pc' = "idle"
    /\ UNCHANGED << shapes, settings, visitor, ni, ei, diagnostics, nodeNames, seenEdges,
                    hardLinkCounts, shapeCounters, nameMap, sections, schemaData,
                    chartMetadata, report, yamls, loaded, uuidCount, calls, loads,
                    initial, upload, runs, reordered >>

\* a serialization run whose name counters are those the last run left
BeginSerializationRun_CountersKept ==
    /\ pc = "check"
    /\ checkSemanticAnalysisSuccess(report)
    /\ visitor' = "serialization"
    /\ schemaData' = NewSchemaData(settings)
    /\ chartMetadata' = NewChartMetadata(settings)
    /\ sections' = EmptySections
    /\ diagnostics' = <<>>
    /\ nameMap' = <<>>
    /\ calls' = <<[call |-> "enterGraph"]>>
    /\ ni' = 1
    /\ ei' = 1
    /\ pc' = PcAt(shapes, 1, 1)
    /\ UNCHANGED << shapes, settings, nodeNames, seenEdges, hardLinkCounts, shapeCounters,
                    report, result, yamls, loaded, uuidCount, loads, initial, upload, runs, reordered >>

\* performGraphSerialization: no error, so a new GraphAnalyzer and a new
\* SerializationVisitor; run() resets and calls enterGraph
BeginSerializationRun ==
    /\ pc = "check"
    /\ checkSemanticAnalysisSuccess(report)
    /\ visitor' = "serialization"
    /\ schemaData' = NewSchemaData(settings)
    /\ chartMetadata' = NewChartMetadata(settings)
    /\ sections' = EmptySections
    /\ diagnostics' = <<>>
    /\ nameMap' = <<>>
    /\ shapeCounters' = [k \in EShapeType |-> 0]
    /\ calls' = <<[call |-> "enterGraph"]>>
    /\ ni' = 1
    /\ ei' = 1
    /\ pc' = PcAt(shapes, 1, 1)
    /\ UNCHANGED << shapes, settings, nodeNames, seenEdges, hardLinkCounts, report,
                    result, yamls, loaded, uuidCount, loads, initial, upload, runs, reordered >>

\* pass 1 of run with the SerializationVisitor: visitNode(graph[ni])
SerializationVisitNode ==
    /\ pc = "nodes"
    /\ visitor = "serialization"
    /\ LET r == SerializationNode(shapes[ni], shapeCounters, nameMap, sections)
       IN /\ shapeCounters' = r.shapeCounters
          /\ nameMap' = r.nameMap
          /\ sections' = r.sections
    /\ calls' = Append(calls, [call |-> "visitNode", node |-> ni])
    /\ ni' = ni + 1
    /\ pc' = PcAt(shapes, ni + 1, ei)
    /\ UNCHANGED << shapes, settings, visitor, ei, diagnostics, nodeNames, seenEdges,
                    hardLinkCounts, schemaData, chartMetadata, report, result, yamls,
                    loaded, uuidCount, loads, initial, upload, runs, reordered >>

\* pass 2 of run with the SerializationVisitor: one adjacency entry; a visitEdge
\* that throws ends performGraphSerialization
SerializationVisitEdge ==
    /\ pc = "edges"
    /\ visitor = "serialization"
    /\ LET e == Entries(shapes)[ei]
           neighbor == NodeMapGet(shapes, e.to)
           r == SerializationEdge(e.kind, shapes[e.from], shapes[neighbor], nameMap, sections)
       IN IF neighbor # 0
          THEN /\ sections' = r.sections
               /\ calls' = Append(calls, [call |-> "visitEdge", kind |-> e.kind,
                                          from |-> e.from, to |-> neighbor])
               /\ pc' = IF r.thrown THEN "idle" ELSE PcAt(shapes, ni, ei + 1)
               /\ result' = IF r.thrown THEN "thrown" ELSE result
          ELSE /\ pc' = PcAt(shapes, ni, ei + 1)
               /\ UNCHANGED << sections, calls, result >>
    /\ ei' = ei + 1
    /\ UNCHANGED << shapes, settings, visitor, ni, diagnostics, nodeNames, seenEdges,
                    hardLinkCounts, shapeCounters, nameMap, schemaData, chartMetadata,
                    report, yamls, loaded, uuidCount, loads, initial, upload, runs, reordered >>

\* the end of the serialization run: exitGraph assembles and dumps the document;
\* performGraphSerialization downloads it and returns true
SerializationExit ==
    /\ pc = "exit"
    /\ visitor = "serialization"
    /\ sections' = CleanSections(sections)
    /\ yamls' = Append(yamls, YamlDump(assembleOutput(schemaData, chartMetadata, sections)))
    /\ calls' = Append(calls, [call |-> "exitGraph"])
    /\ result' = "saved"
    /\ pc' = "idle"
    /\ UNCHANGED << shapes, settings, visitor, ni, ei, diagnostics, nodeNames, seenEdges,
                    hardLinkCounts, shapeCounters, nameMap, schemaData, chartMetadata,
                    report, loaded, uuidCount, loads, initial, upload, runs, reordered >>

\* performGraphDeserialization on the document downloaded last
Deserialize ==
    /\ pc = "idle"
    /\ Len(yamls) > 0
    /\ loads < MaxLoads
    /\ loads' = loads + 1
    /\ loaded' = performGraphDeserialization(yamls[Len(yamls)], uuidCount)
    /\ uuidCount' = uuidCount + GeneratedFor(yamls[Len(yamls)])
    /\ UNCHANGED << shapes, settings, pc, visitor, ni, ei, diagnostics, nodeNames,
                    seenEdges, hardLinkCounts, shapeCounters, nameMap, sections,
                    schemaData, chartMetadata, report, result, yamls, calls,
                    initial, upload, runs, reordered >>

Next ==
    \/ StartSerialization
    \/ SemanticVisitNode
    \/ SemanticVisitEdge
    \/ SemanticExit
    \/ Refuse
    \/ BeginSerializationRun
    \/ SerializationVisitNode
    \/ SerializationVisitEdge
    \/ SerializationExit
    \/ Deserialize

Spec == Init /\ [][Next]_vars

SpecConnections == InitConnections /\ [][Next]_vars

----------------------------------------------------------------------------
(* The targets of a workload: graphs of a workload with up to MaxTargets   *)
(* targets and one allowed connection, handed to performGraphSerialization.*)

\* what the unikernel modal can hold as one target
TargetStrings ==
    {"qemu/x86_64", "qemu/arm64", "xen/x86_64", "xen/arm64", "firecracker/x86_64",
     "firecracker/arm64", "qemu/arm", "kvm/arm64", "qemu", "qemu/x86_64/arm64",
     "x86_64/qemu", "qemu/"}

\* a stored procedure or an event trigger with these targets and a hard link to
\* a data source, or an event with these targets that an event trigger leads to
TargetGraph(type, targets) ==
    IF type = EVENT
    THEN ConnectAll(
             <<Merge(NewShape(NodeIds[1], EVENT_TRIGGER, NodeNames[1]),
                     RequiredFields(EVENT_TRIGGER)),
               Merge(NewShape(NodeIds[2], EVENT, NodeNames[2]),
                     Put(RequiredFields(EVENT), "targets", targets))>>,
             <<[from |-> 1, kind |-> EVENT_LINK, to |-> NodeIds[2]]>>)
    ELSE ConnectAll(
             <<Merge(NewShape(NodeIds[1], type, NodeNames[1]),
                     Put(RequiredFields(type), "targets", targets)),
               Merge(NewShape(NodeIds[2], DATA_SOURCE, NodeNames[2]),
                     RequiredFields(DATA_SOURCE))>>,
             <<[from |-> 1, kind |-> HARD_LINK, to |-> NodeIds[2]]>>)

InitTargets ==
    /\ \E type \in EShapeType \ {DATA_SOURCE}, k \in 0..MaxTargets :
          \E targets \in [1..k -> TargetStrings] : shapes = TargetGraph(type, targets)
    /\ settings = DefaultSettings
    /\ initial = shapes
    /\ NoUpload(shapes)
    /\ Quiescent
    /\ reordered = <<>>

SpecTargets == InitTargets /\ [][Next]_vars

----------------------------------------------------------------------------
(* handleFileUpload (App.tsx): the user picks a file and the editor loads  *)
(* it.  A file is a document the editor downloaded before, a document      *)
(* written by hand in the same format, or a text that is no document.      *)

\* texts yaml.load throws on, returns undefined for, and returns a string for
Unparsable == [kind |-> "invalid"]
EmptyText == [kind |-> "empty"]
ScalarText == [kind |-> "scalar"]

\* the text "{}"
EmptyObjectText == YamlDump(<<>>)

\* a text whose root is a sequence: an object without a chart to the loader
SequenceText == YamlDump([k \in {"0"} |-> "item"])

\* the valid graphs whose downloaded documents are at hand: the empty graph,
\* one shape of each type, and two shapes with one allowed connection drawn
\* from the first or from the second
SavedGraphs ==
    {<<>>}
    \cup {Shapes(<<t>>) : t \in EShapeType}
    \cup {ConnectAll(Shapes(<<t[1], t[2]>>), <<[from |-> 1, kind |-> k, to |-> NodeIds[2]]>>) :
             t \in {<<STORED_PROCEDURE, DATA_SOURCE>>, <<DATA_SOURCE, STORED_PROCEDURE>>,
                    <<DATA_SOURCE, EVENT_TRIGGER>>, <<EVENT_TRIGGER, DATA_SOURCE>>},
             k \in {HARD_LINK, SOFT_LINK}}
    \cup {ConnectAll(Shapes(<<t[1], t[2]>>), <<[from |-> 2, kind |-> HARD_LINK, to |-> NodeIds[1]]>>) :
             t \in {<<STORED_PROCEDURE, DATA_SOURCE>>, <<DATA_SOURCE, EVENT_TRIGGER>>}}
    \cup {ConnectAll(Shapes(<<EVENT_TRIGGER, EVENT>>),
                     <<[from |-> 1, kind |-> EVENT_LINK, to |-> NodeIds[2]]>>),
          ConnectAll(Shapes(<<EVENT, EVENT_TRIGGER>>),
                     <<[from |-> 2, kind |-> EVENT_LINK, to |-> NodeIds[1]]>>)}

SavedFiles == {performGraphSerialization(g, DefaultSettings).yaml : g \in SavedGraphs}

\* the keys of the entries of a document written by hand, and a name that is
\* no key of it
DataSourceKey == "datasource_1"
ProcedureKey == "procedure_1"
TriggerKey == "trigger_1"
EventKey == "event_1"
Ghost == "ghost_1"

\* the entries of a document written by hand, in the format of visitNode
DocDataSource ==
    [name |-> "svc 1", type |-> "file", path |-> "/data/in.csv", resourceName |-> "res1"]

DocWorkload(name) ==
    [metadata |-> [name |-> name, image |-> "docker://img"],
     control |-> [disableVirtualization |-> FALSE, runDetached |-> FALSE,
                  removeOnStop |-> FALSE]]

DocEvent(name) ==
    [metadata |-> [name |-> name, image |-> "docker://img", topic |-> "topic1"],
     control |-> [disableVirtualization |-> FALSE, runDetached |-> FALSE,
                  removeOnStop |-> FALSE]]

\* a links object with one bucket holding these destinations
LinksTo(bucket, names) ==
    [b \in {bucket} |-> [k \in 1..Len(names) |-> [destination |-> names[k]]]]

WithLinks(value, links) == IF DOMAIN links = {} THEN value ELSE Put(value, "links", links)

\* the root of a document with these four sections
Document(chart) ==
    [apiVersion |-> "v1", schemaVersion |-> "v1", kind |-> "StarChart", chart |-> chart]

\* one entry per section, with the links given
HandChart(dsLinks, spLinks, etLinks) ==
    [dataSources |-> <<[key |-> DataSourceKey, value |-> WithLinks(DocDataSource, dsLinks)]>>,
     storedProcedures |->
         <<[key |-> ProcedureKey, value |-> WithLinks(DocWorkload("svc 2"), spLinks)]>>,
     eventTriggers |->
         <<[key |-> TriggerKey, value |-> WithLinks(DocWorkload("svc 3"), etLinks)]>>,
     events |-> <<[key |-> EventKey, value |-> DocEvent("svc 4")]>>]

\* links of the stored procedure: to an entry of an earlier section, of a later
\* section, of its own section, to no entry, and a link without destination
ProcedureLinks ==
    {<<>>} \cup {LinksTo("hardLinks", <<d>>) : d \in {DataSourceKey, TriggerKey, EventKey,
                                                       ProcedureKey, Ghost}}
    \cup {LinksTo("hardLinks", <<Ghost, DataSourceKey>>),
          [hardLinks |-> << <<>> >>],
          [softLinks |-> <<[destination |-> DataSourceKey]>>,
           hardLinks |-> <<[destination |-> Ghost]>>]}

TriggerLinks ==
    {<<>>, LinksTo("eventLinks", <<EventKey>>), LinksTo("eventLinks", <<Ghost>>),
     LinksTo("softLinks", <<DataSourceKey>>)}

\* a data source holds no links in a downloaded document; by hand it can
DataSourceLinks == {<<>>, LinksTo("softLinks", <<ProcedureKey>>)}

HandFiles ==
    {YamlDump(Document(HandChart(ds, sp, et))) :
        ds \in DataSourceLinks, sp \in ProcedureLinks, et \in TriggerLinks}

\* documents with one data source: holding an id, no path, no name, or null;
\* with a null stored procedure; with two data sources holding the same id
OddFiles ==
    {YamlDump(Document([dataSources |-> <<[key |-> DataSourceKey, value |-> v]>>])) :
        v \in {Put(DocDataSource, "id", "a"), Remove(DocDataSource, "path"),
               Remove(DocDataSource, "name"), Null}}
    \cup {YamlDump(Document(
             [dataSources |-> <<[key |-> DataSourceKey, value |-> DocDataSource]>>,
              storedProcedures |-> <<[key |-> ProcedureKey, value |-> Null]>>]))}
    \cup {YamlDump(Document(
             [dataSources |->
                 <<[key |-> DataSourceKey, value |-> Put(DocDataSource, "id", "a")],
                   [key |-> "datasource_2",
                    value |-> Put(Put(DocDataSource, "name", "svc 2"), "id", "a")]>>]))}

Files ==
    {Unparsable, EmptyText, ScalarText, EmptyObjectText, SequenceText}
    \cup SavedFiles \cup HandFiles \cup OddFiles

\* the messages handleFileUpload leaves
CouldNotReconstruct == "Could not reconstruct graph. Check file format."
Reconstructed == "Graph successfully reconstructed!"

\* an upload that takes over every graph that is not empty, analysed or not
HandleFileUpload_Unvalidated ==
    /\ pc = "idle"
    /\ loads < MaxLoads
    /\ \E text \in Files : \E graph \in {performGraphDeserialization(text, uuidCount)} :
          /\ content' = text
          /\ loaded' = graph
          /\ uuidCount' = uuidCount + GeneratedFor(text)
          /\ IF graph = Raised
             THEN UNCHANGED << shapes, lines, softLines, eventLines,
                               deserializationError, report >>
             ELSE IF Len(graph) = 0
             THEN /\ deserializationError' = CouldNotReconstruct
                  /\ UNCHANGED << shapes, lines, softLines, eventLines, report >>
             ELSE \E a \in {performGraphSemanticAnalysis(graph)} :
                     IF TRUE
                     THEN /\ shapes' = a.graph
                          /\ lines' = getGraphEdges(a.graph).lines
                          /\ softLines' = getGraphEdges(a.graph).softLines
                          /\ eventLines' = getGraphEdges(a.graph).eventLines
                          /\ deserializationError' = Reconstructed
                          /\ report' = a.report
                     ELSE /\ deserializationError' = ""
                          /\ report' = a.report
                          /\ UNCHANGED << shapes, lines, softLines, eventLines >>
    /\ loads' = loads + 1
    /\ UNCHANGED << settings, pc, visitor, ni, ei, diagnostics, nodeNames, seenEdges,
                    hardLinkCounts, shapeCounters, nameMap, sections, schemaData,
                    chartMetadata, result, yamls, calls, initial, runs, reordered >>

\* reader.onload for a file: the graph is deserialized and analysed, and taken
\* over if the analysis found no error
HandleFileUpload ==
    /\ pc = "idle"
    /\ loads < MaxLoads
    /\ \E text \in Files : \E graph \in {performGraphDeserialization(text, uuidCount)} :
          /\ content' = text
          /\ loaded' = graph
          /\ uuidCount' = uuidCount + GeneratedFor(text)
          /\ IF graph = Raised
             THEN UNCHANGED << shapes, lines, softLines, eventLines,
                               deserializationError, report >>
             ELSE IF Len(graph) = 0
             THEN /\ deserializationError' = CouldNotReconstruct
                  /\ UNCHANGED << shapes, lines, softLines, eventLines, report >>
             ELSE \E a \in {performGraphSemanticAnalysis(graph)} :
                     IF checkSemanticAnalysisSuccess(a.report)
                     THEN /\ shapes' = a.graph
                          /\ lines' = getGraphEdges(a.graph).lines
                          /\ softLines' = getGraphEdges(a.graph).softLines
                          /\ eventLines' = getGraphEdges(a.graph).eventLines
                          /\ deserializationError' = Reconstructed
                          /\ report' = a.report
                     ELSE /\ deserializationError' = ""
                          /\ report' = a.report
                          /\ UNCHANGED << shapes, lines, softLines, eventLines >>
    /\ loads' = loads + 1
    /\ UNCHANGED << settings, pc, visitor, ni, ei, diagnostics, nodeNames, seenEdges,
                    hardLinkCounts, shapeCounters, nameMap, sections, schemaData,
                    chartMetadata, result, yamls, calls, initial, runs, reordered >>

\* the graphs the editor holds when a file is picked: none, or a valid one
EditorGraphs ==
    {<<>>,
     ConnectAll(Shapes(<<STORED_PROCEDURE, DATA_SOURCE>>),
                <<[from |-> 1, kind |-> HARD_LINK, to |-> NodeIds[2]]>>),
     ConnectAll(Shapes(<<EVENT_TRIGGER, EVENT, DATA_SOURCE>>),
                <<[from |-> 1, kind |-> EVENT_LINK, to |-> NodeIds[2]],
                  [from |-> 3, kind |-> SOFT_LINK, to |-> NodeIds[1]]>>)}

InitUpload ==
    /\ shapes \in EditorGraphs
    /\ settings = DefaultSettings
    /\ initial = shapes
    /\ NoUpload(shapes)
    /\ Quiescent
    /\ reordered = <<>>

NextUpload == HandleFileUpload

SpecUpload == InitUpload /\ [][NextUpload]_vars

----------------------------------------------------------------------------
(* One GraphAnalyzer run any number of times with a visitor that reports   *)
(* what it likes: up to MaxDiagnostics diagnostics per run, about a node   *)
(* of the graph, about no node of it, or about no node at all.             *)

\* the graphs the analyzer is built on: two shapes of the editor, and two nodes
\* loaded from a document that gives the second the id "global"
AnalyzerGraphs ==
    {Shapes(<<STORED_PROCEDURE, DATA_SOURCE>>),
     [Shapes(<<STORED_PROCEDURE, DATA_SOURCE>>) EXCEPT ![2] = Put(@, "id", "global")]}

\* what the visitor can hand to report()
ReportedDiagnostics ==
    {Diag(NodeIds[1], ERROR, "first", <<>>), Diag(NodeIds[1], WARNING, "second", <<>>),
     Diag(NodeIds[2], ERROR, "first", <<>>), Diag("zz", ERROR, "first", <<>>),
     [severity |-> ERROR, rule |-> "first", details |-> <<>>]}

InitRun ==
    /\ shapes \in AnalyzerGraphs
    /\ settings = DefaultSettings
    /\ initial = shapes
    /\ NoUpload(shapes)
    /\ Quiescent
    /\ reordered = <<>>

\* a run that keeps the diagnostics of the runs before it
RunEnter_DiagnosticsKept ==
    /\ pc = "idle"
    /\ runs < MaxRuns
    /\ report' = <<>>
    /\ calls' = <<[call |-> "enterGraph"]>>
    /\ pc' = "visiting"
    /\ UNCHANGED << shapes, settings, visitor, ni, ei, diagnostics, nodeNames, seenEdges,
                    hardLinkCounts, shapeCounters, nameMap, sections, schemaData,
                    chartMetadata, result, yamls, loaded, uuidCount, loads, initial,
                    upload, runs, reordered >>

\* run: the diagnostics are reset and enterGraph is called; no map is returned yet
RunEnter ==
    /\ pc = "idle"
    /\ runs < MaxRuns
    /\ diagnostics' = <<>>
    /\ report' = <<>>
    /\ calls' = <<[call |-> "enterGraph"]>>
    /\ pc' = "visiting"
    /\ UNCHANGED << shapes, settings, visitor, ni, ei, nodeNames, seenEdges,
                    hardLinkCounts, shapeCounters, nameMap, sections, schemaData,
                    chartMetadata, result, yamls, loaded, uuidCount, loads, initial,
                    upload, runs, reordered >>

\* report(diagnostic), called by the visitor from one of its callbacks
Report ==
    /\ pc = "visiting"
    /\ Len(calls) <= MaxDiagnostics
    /\ \E d \in ReportedDiagnostics :
          /\ diagnostics' = Append(diagnostics, d)
          /\ calls' = Append(calls, [call |-> "report", diagnostic |-> d])
    /\ UNCHANGED << shapes, settings, pc, visitor, ni, ei, nodeNames, seenEdges,
                    hardLinkCounts, shapeCounters, nameMap, sections, schemaData,
                    chartMetadata, report, result, yamls, loaded, uuidCount, loads,
                    initial, upload, runs, reordered >>

\* run: the traversal is over, the diagnostics are grouped and returned
RunReturn ==
    /\ pc = "visiting"
    /\ report' = groupedErrors(shapes, diagnostics)
    /\ runs' = runs + 1
    /\ pc' = "idle"
    /\ UNCHANGED << shapes, settings, visitor, ni, ei, diagnostics, nodeNames, seenEdges,
                    hardLinkCounts, shapeCounters, nameMap, sections, schemaData,
                    chartMetadata, result, yamls, loaded, uuidCount, calls, loads,
                    initial, upload, reordered >>

NextRun == RunEnter \/ Report \/ RunReturn

SpecRun == InitRun /\ [][NextRun]_vars

----------------------------------------------------------------------------
(* One chart drawn twice, the shapes of one type in another order, and     *)
(* each drawing saved with performGraphSerialization.                      *)

\* the orders that leave the type at every place of the graph as it is
SameTypeOrders(graph) ==
    {p \in [1..Len(graph) -> 1..Len(graph)] :
        /\ \A i, j \in 1..Len(graph) : p[i] = p[j] => i = j
        /\ \A i \in 1..Len(graph) : graph[p[i]]["type"] = graph[i]["type"]}

\* up to MaxEdges hard and soft links, in the order they were drawn, between
\* those of three shapes that differ in type
LinkSeqs(types) ==
    UNION {[1..k -> {c \in Connections(3) :
                        /\ c.kind # EVENT_LINK
                        /\ \E j \in 1..3 : c.to = NodeIds[j] /\ types[j] # types[c.from]}] :
              k \in 0..MaxEdges}

InitOrder ==
    /\ \E types \in [1..3 -> {DATA_SOURCE, STORED_PROCEDURE}] : \E es \in LinkSeqs(types) :
          /\ shapes = ConnectAll(Shapes(types), es)
          /\ \E p \in SameTypeOrders(Shapes(types)) :
                reordered = [i \in 1..3 |-> ConnectAll(Shapes(types), es)[p[i]]]
    /\ settings = DefaultSettings
    /\ initial = shapes
    /\ NoUpload(shapes)
    /\ Quiescent

\* performGraphSerialization on the one drawing, then on the other
SaveOrders ==
    /\ pc = "idle"
    /\ Len(yamls) = 0
    /\ \E first \in {performGraphSerialization(shapes, settings)},
          second \in {performGraphSerialization(reordered, settings)} :
          /\ yamls' = (IF first.result = "saved" THEN <<first.yaml>> ELSE <<>>)
                        \o (IF second.result = "saved" THEN <<second.yaml>> ELSE <<>>)
          /\ result' = second.result
          /\ shapes' = first.graph
          /\ reordered' = second.graph
          /\ report' = second.report
    /\ UNCHANGED << settings, pc, visitor, ni, ei, diagnostics, nodeNames, seenEdges,
                    hardLinkCounts, shapeCounters, nameMap, sections, schemaData,
                    chartMetadata, loaded, uuidCount, calls, loads, initial, upload,
                    runs >>

NextOrder == SaveOrders

SpecOrder == InitOrder /\ [][NextOrder]_vars

----------------------------------------------------------------------------
(* Graphs whose ids a document gave: checkID keeps any non-blank id of an  *)
(* entry, so an id can hold the '-' the edge key is joined with.           *)

\* ids a document can give its entries
DashedIds == <<"a-b-a", "b-a", "a-b">>

\* the graph with ids[i] for the id of the i-th shape, in the nodes and in their
\* adjacency lists
WithIds(graph, ids) ==
    LET New(x) == IF \E i \in 1..Len(NodeIds) : NodeIds[i] = x
                  THEN ids[CHOOSE i \in 1..Len(NodeIds) : NodeIds[i] = x] ELSE x
    IN [n \in 1..Len(graph) |->
           [f \in DOMAIN graph[n] |->
               IF f = "id" THEN New(graph[n][f])
               ELSE IF f \in {"connectedTo", "softConnectedTo", "eventConnectedTo"}
               THEN [j \in 1..Len(graph[n][f]) |-> New(graph[n][f][j])]
               ELSE graph[n][f]]]

\* up to MaxEdges hard and soft links, in the order they were drawn, among
\* three shapes
PlainLinkSeqs ==
    UNION {[1..k -> {c \in Connections(3) : c.kind # EVENT_LINK}] : k \in 0..MaxEdges}

InitIds ==
    /\ \E types \in [1..3 -> {DATA_SOURCE, STORED_PROCEDURE}], es \in PlainLinkSeqs,
          ids \in {NodeIds, DashedIds} :
          shapes = WithIds(ConnectAll(Shapes(types), es), ids)
    /\ settings = DefaultSettings
    /\ initial = shapes
    /\ NoUpload(shapes)
    /\ Quiescent
    /\ reordered = <<>>

----------------------------------------------------------------------------
(* One graph in two node orders, each handed to                            *)
(* performGraphSemanticAnalysis and its map to                             *)
(* checkSemanticAnalysisSuccess.                                           *)

\* the orders of the nodes of a graph
Orders(graph) ==
    {p \in [1..Len(graph) -> 1..Len(graph)] : \A i, j \in 1..Len(graph) : p[i] = p[j] => i = j}

InitPermuted ==
    /\ \/ TwoShapeGraph(shapes)
       \/ ThreeShapeGraph(shapes)
       \/ DanglingGraph(shapes)
    /\ \E p \in Orders(shapes) : reordered = [i \in 1..Len(shapes) |-> shapes[p[i]]]
    /\ settings = DefaultSettings
    /\ initial = shapes
    /\ NoUpload(shapes)
    /\ Quiescent

\* the analysis of the one order, then of the other; report holds the map of
\* the first, result the validity of the second
AnalyseOrders ==
    /\ pc = "idle"
    /\ \E first \in {performGraphSemanticAnalysis(shapes)},
          second \in {performGraphSemanticAnalysis(reordered)} :
          /\ shapes' = first.graph
          /\ reordered' = second.graph
          /\ report' = first.report
          /\ result' = IF checkSemanticAnalysisSuccess(second.report)
                       THEN "valid" ELSE "invalid"
    /\ pc' = "returned"
    /\ UNCHANGED << settings, visitor, ni, ei, diagnostics, nodeNames, seenEdges,
                    hardLinkCounts, shapeCounters, nameMap, sections, schemaData,
                    chartMetadata, yamls, loaded, uuidCount, calls, loads, initial, upload,
                    runs >>

NextPermuted == AnalyseOrders

SpecPermuted == InitPermuted /\ [][NextPermuted]_vars

----------------------------------------------------------------------------
(* One SemanticVisitor kept and handed to run after run on the graph of    *)
(* the editor.                                                             *)

\* enterGraph that leaves the names seen by the runs before
SemanticEnterGraph_NamesKept ==
    /\ pc \in {"idle", "check"}
    /\ runs < MaxRuns
    /\ runs' = runs + 1
    /\ visitor' = "semantic"
    /\ diagnostics' = <<>>
    /\ seenEdges' = {}
    /\ hardLinkCounts' = <<>>
    /\ calls' = <<[call |-> "enterGraph"]>>
    /\ ni' = 1
    /\ ei' = 1
    /\ pc' = PcAt(shapes, 1, 1)
    /\ UNCHANGED << shapes, settings, nodeNames, shapeCounters, nameMap, sections,
                    schemaData, chartMetadata, report, result, yamls, loaded, uuidCount,
                    loads, initial, upload, reordered >>

\* run with the visitor of the run before: the diagnostics are reset, and
\* enterGraph resets the names, the edges and the hard-link counts
SemanticEnterGraph ==
    /\ pc \in {"idle", "check"}
    /\ runs < MaxRuns
    /\ runs' = runs + 1
    /\ visitor' = "semantic"
    /\ diagnostics' = <<>>
    /\ nodeNames' = {}
    /\ seenEdges' = {}
    /\ hardLinkCounts' = <<>>
    /\ calls' = <<[call |-> "enterGraph"]>>
    /\ ni' = 1
    /\ ei' = 1
    /\ pc' = PcAt(shapes, 1, 1)
    /\ UNCHANGED << shapes, settings, shapeCounters, nameMap, sections, schemaData,
                    chartMetadata, report, result, yamls, loaded, uuidCount, loads,
                    initial, upload, reordered >>

NextReuse ==
    \/ SemanticEnterGraph
    \/ SemanticVisitNode
    \/ SemanticVisitEdge
    \/ SemanticExit

SpecReuse == InitConnections /\ [][NextReuse]_vars

\* the same runs on the graphs with ids of a document
SpecIds == InitIds /\ [][NextReuse]_vars

----------------------------------------------------------------------------
(* One SerializationVisitor kept and handed to run after run, the editor   *)
(* deleting shapes in between.                                             *)

\* two shapes of any types with at most one connection
InitReserialize ==
    /\ \E types \in [1..2 -> EShapeType] :
          \E es \in {<<>>} \cup {<<c>> : c \in Connections(2)} :
             shapes = ConnectAll(Shapes(types), es)
    /\ settings = DefaultSettings
    /\ initial = shapes
    /\ NoUpload(shapes)
    /\ Quiescent
    /\ reordered = <<>>

\* deleteSelected with one of the shapes selected
deleteSelected ==
    /\ pc = "idle"
    /\ runs > 0
    /\ \E i \in 1..Len(shapes) :
          LET selectedId == shapes[i]["id"]
              Kept(ls) == SelectSeq(ls, LAMBDA l : l.from # selectedId /\ l.to # selectedId)
          IN /\ shapes' = SelectSeq(shapes, LAMBDA shape : shape["id"] # selectedId)
             /\ lines' = Kept(lines)
             /\ softLines' = Kept(softLines)
    /\ UNCHANGED << settings, pc, visitor, ni, ei, diagnostics, nodeNames, seenEdges,
                    hardLinkCounts, shapeCounters, nameMap, sections, schemaData,
                    chartMetadata, report, result, yamls, loaded, uuidCount, calls, loads,
                    initial, eventLines, content, deserializationError, runs, reordered >>

\* run with the visitor that was constructed from the settings and has been
\* through the runs before: the diagnostics are reset, and enterGraph resets the
\* names and the counters
SerializationEnterGraph ==
    /\ pc = "idle"
    /\ runs < MaxRuns
    /\ runs' = runs + 1
    /\ visitor' = "serialization"
    /\ schemaData' = NewSchemaData(settings)
    /\ chartMetadata' = NewChartMetadata(settings)
    /\ diagnostics' = <<>>
    /\ nameMap' = <<>>
    /\ shapeCounters' = [k \in EShapeType |-> 0]
    /\ result' = "none"
    /\ calls' = <<[call |-> "enterGraph"]>>
    /\ ni' = 1
    /\ ei' = 1
    /\ pc' = PcAt(shapes, 1, 1)
    /\ UNCHANGED << shapes, settings, nodeNames, seenEdges, hardLinkCounts, sections,
                    report, yamls, loaded, uuidCount, loads, initial, upload, reordered >>

NextReserialize ==
    \/ SerializationEnterGraph
    \/ SerializationVisitNode
    \/ SerializationVisitEdge
    \/ SerializationExit
    \/ deleteSelected

SpecReserialize == InitReserialize /\ [][NextReserialize]_vars

----------------------------------------------------------------------------
(* checkSemanticAnalysisSuccess on its own, applied to diagnostics maps of *)
(* up to MaxDiagnostics entries with up to MaxDiagnostics diagnostics each. *)

\* the diagnostic lists a map entry can hold
DiagnosticLists ==
    UNION {{[i \in 1..k |-> Diag(NodeIds[1], severities[i], "any", <<>>)] :
               severities \in [1..k -> ESeverity]} : k \in 1..MaxDiagnostics}

\* a map run can return
DiagnosticMap(map) ==
    \E k \in 0..MaxDiagnostics :
        \E lists \in [1..k -> DiagnosticLists] :
            map = [i \in 1..k |-> [node |-> i, diagnostics |-> lists[i]]]

InitValid ==
    /\ DiagnosticMap(report)
    /\ pc = "call"
    /\ result = "none"
    /\ shapes = <<>>
    /\ settings = DefaultSettings
    /\ visitor = "none"
    /\ ni = 0
    /\ ei = 0
    /\ diagnostics = <<>>
    /\ nodeNames = {}
    /\ seenEdges = {}
    /\ hardLinkCounts = <<>>
    /\ shapeCounters = <<>>
    /\ nameMap = <<>>
    /\ sections = EmptySections
    /\ schemaData = <<>>
    /\ chartMetadata = <<>>
    /\ yamls = <<>>
    /\ loaded = <<>>
    /\ uuidCount = 0
    /\ calls = <<>>
    /\ loads = 0
    /\ runs = 0
    /\ reordered = <<>>
    /\ initial = <<>>
    /\ NoUpload(shapes)

\* a call of checkSemanticAnalysisSuccess on the map, and its return value
IsValid ==
    /\ pc = "call"
    /\ result' = IF checkSemanticAnalysisSuccess(report) THEN "valid" ELSE "invalid"
    /\ pc' = "returned"
    /\ UNCHANGED << shapes, settings, visitor, ni, ei, diagnostics, nodeNames, seenEdges,
                    hardLinkCounts, shapeCounters, nameMap, sections, schemaData,
                    chartMetadata, report, yamls, loaded, uuidCount, calls, loads, initial, upload, runs, reordered >>

NextValid == IsValid

SpecValid == InitValid /\ [][NextValid]_vars

----------------------------------------------------------------------------
(* Notions the properties below are stated in.                             *)

\* the analysis run of the current performGraphSerialization has returned
Analysed == visitor = "semantic" /\ pc = "check"

\* the diagnostics of a list that are about the node with this id and this rule
About(diags, id, rule) ==
    {k \in 1..Len(diags) : diags[k].nodeId = id /\ diags[k].rule = rule}

\* the diagnostics the map holds under the node at position i
Bucket(map, i) ==
    IF \E k \in 1..Len(map) : map[k].node = i
    THEN map[CHOOSE k \in 1..Len(map) : map[k].node = i].diagnostics
    ELSE <<>>

\* the severities found anywhere in a map
Severities(map) ==
    UNION {{map[k].diagnostics[d].severity : d \in 1..Len(map[k].diagnostics)} :
              k \in 1..Len(map)}

----------------------------------------------------------------------------
(* C3: checkSemanticAnalysisSuccess returns true exactly when no list of   *)
(* the map holds a diagnostic of severity error; maps holding warnings and *)
(* infos only are valid.                                                   *)
C3_ValidIffNoError ==
    pc = "returned" =>
        /\ result = "valid" <=> ERROR \notin Severities(report)
        /\ Severities(report) \subseteq {WARNING, INFO} => result = "valid"

\* a map with a warning and an info and no error was found valid
C3_Witness ==
    /\ pc = "returned"
    /\ result = "valid"
    /\ Severities(report) = {WARNING, INFO}

----------------------------------------------------------------------------
(* C2: once performGraphSerialization has returned, it returned false      *)
(* exactly when its analysis reported an error; then the last traversal    *)
(* was the analysis and no document exists.  With warnings only or nothing *)
(* reported the serialization traversal ran on the analysed graph and a    *)
(* document was downloaded.                                                *)
C2_RefusedIffError ==
    /\ (pc = "idle" /\ result # "none") =>
          /\ result = "refused" <=> ERROR \in Severities(report)
          /\ result = "refused" => visitor = "semantic" /\ yamls = <<>>
          /\ ERROR \notin Severities(report) =>
                result = "saved" /\ visitor = "serialization" /\ Len(yamls) > 0
    /\ visitor = "serialization" => ERROR \notin Severities(report)
    /\ Analysed => report = groupedErrors(shapes, diagnostics)

\* a graph with an error was refused and nothing was downloaded
C2_Witness ==
    /\ pc = "idle"
    /\ result = "refused"
    /\ ERROR \in Severities(report)
    /\ yamls = <<>>

----------------------------------------------------------------------------
(* C4: after the analysis, every node that has its own id in its hard,     *)
(* soft or event adjacency list has a self-loop error in its bucket.       *)
C4_SelfLoopReported ==
    Analysed =>
        \A i \in 1..Len(shapes) :
            (\E e \in 1..Len(Entries(shapes)) :
                Entries(shapes)[e].from = i /\ Entries(shapes)[e].to = shapes[i]["id"])
            => \E d \in 1..Len(Bucket(report, i)) :
                  /\ Bucket(report, i)[d].rule = "self-loop"
                  /\ Bucket(report, i)[d].severity = ERROR
                  /\ Bucket(report, i)[d].nodeId = shapes[i]["id"]

\* a node with its own id in its event list, analysed
C4_Witness ==
    /\ Analysed
    /\ \E i \in 1..Len(shapes) :
          /\ Has(shapes[i], "eventConnectedTo")
          /\ Includes(shapes[i]["eventConnectedTo"], shapes[i]["id"])
          /\ ~Has(shapes[i], "connectedTo")

----------------------------------------------------------------------------
(* C5: after the analysis, every resolvable adjacency entry that joins the *)
(* same two nodes as an entry visited before it, in either direction and   *)
(* of any kind, has its own duplicate-edge error attributed to its source. *)
C5_DuplicateEdgeReported ==
    Analysed =>
        LET es == Resolvable(shapes)
            Second(j) == \E i \in 1..(j - 1) : {es[i].from, es[i].to} = {es[j].from, es[j].to}
        IN \A n \in 1..Len(shapes) :
              /\ Cardinality(About(diagnostics, shapes[n]["id"], "multiple edges"))
                    >= Cardinality({j \in 1..Len(es) : es[j].from = n /\ Second(j)})
              /\ \A k \in About(diagnostics, shapes[n]["id"], "multiple edges") :
                    diagnostics[k].severity = ERROR

\* A -hard-> B and B -soft-> A, analysed
C5_Witness ==
    /\ Analysed
    /\ Len(shapes) = 2
    /\ Resolvable(shapes) = <<[from |-> 1, kind |-> HARD_LINK, to |-> 2],
                              [from |-> 2, kind |-> SOFT_LINK, to |-> 1]>>
    /\ Cardinality(About(diagnostics, shapes[2]["id"], "multiple edges")) = 1

----------------------------------------------------------------------------
(* C6: after the analysis, a data source that is an endpoint of two        *)
(* distinct resolvable hard-link entries has a multiple-hard-link error in *)
(* its bucket, and the graph is not valid.                                 *)
C6_SecondHardLinkReported ==
    Analysed =>
        LET es == Resolvable(shapes)
            Touching(n) == {j \in 1..Len(es) :
                               es[j].kind = HARD_LINK /\ (es[j].from = n \/ es[j].to = n)}
        IN \A n \in 1..Len(shapes) :
              (shapes[n]["type"] = DATA_SOURCE /\ Cardinality(Touching(n)) >= 2) =>
                  /\ \E d \in 1..Len(Bucket(report, n)) :
                        /\ Bucket(report, n)[d].rule = "multiple hard links"
                        /\ Bucket(report, n)[d].severity = ERROR
                  /\ ~checkSemanticAnalysisSuccess(report)

\* a data source that is the source of one hard link and the destination of
\* another, from two different nodes, analysed
C6_Witness ==
    /\ Analysed
    /\ Len(shapes) = 3
    /\ \E d \in 1..3, a \in 1..3, b \in 1..3 :
          /\ a # b /\ a # d /\ b # d
          /\ shapes[d]["type"] = DATA_SOURCE
          /\ Resolvable(shapes) \in
                {<<[from |-> a, kind |-> HARD_LINK, to |-> d],
                   [from |-> d, kind |-> HARD_LINK, to |-> b]>>,
                 <<[from |-> d, kind |-> HARD_LINK, to |-> b],
                   [from |-> a, kind |-> HARD_LINK, to |-> d]>>}

----------------------------------------------------------------------------
(* C7: after the analysis, each node has as many disallowed-pair errors as *)
(* it has resolvable outgoing entries whose (source type, destination      *)
(* type, kind) is outside the table SP->DS soft/hard, DS->SP soft/hard,    *)
(* DS->ET soft/hard, ET->DS soft/hard, ET->Event event; so every entry     *)
(* from or to an event other than ET -event-> Event is reported.           *)
C7_DisallowedIffNotInTable ==
    Analysed =>
        LET es == Resolvable(shapes)
            table == ({<<STORED_PROCEDURE, DATA_SOURCE>>, <<DATA_SOURCE, STORED_PROCEDURE>>,
                       <<DATA_SOURCE, EVENT_TRIGGER>>, <<EVENT_TRIGGER, DATA_SOURCE>>}
                      \X {SOFT_LINK, HARD_LINK})
                     \cup {<<<<EVENT_TRIGGER, EVENT>>, EVENT_LINK>>}
            Outside(j) ==
                <<<<shapes[es[j].from]["type"], shapes[es[j].to]["type"]>>, es[j].kind>> \notin table
        IN \A n \in 1..Len(shapes) :
              /\ Cardinality(About(diagnostics, shapes[n]["id"], "invalid connection"))
                    = Cardinality({j \in 1..Len(es) : es[j].from = n /\ Outside(j)})
              /\ \A k \in About(diagnostics, shapes[n]["id"], "invalid connection") :
                    diagnostics[k].severity = ERROR

\* an event trigger with an event link and a soft link to an event: one allowed
\* entry, one reported
C7_Witness ==
    /\ Analysed
    /\ Len(shapes) = 2
    /\ shapes[1]["type"] = EVENT_TRIGGER
    /\ shapes[2]["type"] = EVENT
    /\ Resolvable(shapes) = <<[from |-> 1, kind |-> SOFT_LINK, to |-> 2],
                              [from |-> 1, kind |-> EVENT_LINK, to |-> 2]>>
    /\ Cardinality(About(diagnostics, shapes[1]["id"], "invalid connection")) = 1

----------------------------------------------------------------------------
(* C8: a data source that had no dataType before the analysis holds "file" *)
(* from its visit on, through the edge pass, exitGraph and whatever runs   *)
(* later; no diagnostic about its data type is reported; the serialization *)
(* visitor reads "file" and every document downloaded says "file".         *)
C8_DefaultDataTypeVisible ==
    \A i \in 1..Len(shapes) :
        (shapes[i]["type"] = DATA_SOURCE /\ FalsyStr(initial[i], "dataType")) =>
            LET rank == Cardinality({j \in 1..i : shapes[j]["type"] = DATA_SOURCE})
                analysed == \/ visitor = "semantic" /\ (pc # "nodes" \/ i < ni)
                            \/ visitor = "serialization"
                serialized == visitor = "serialization" /\ (pc # "nodes" \/ i < ni)
            IN /\ analysed => Has(shapes[i], "dataType") /\ shapes[i]["dataType"] = "file"
               /\ About(diagnostics, shapes[i]["id"], "invalid data type") = {}
               /\ \A d \in 1..Len(Bucket(report, i)) :
                     Bucket(report, i)[d].rule # "invalid data type"
               /\ serialized =>
                     /\ Has(sections["dataSources"][rank].value, "type")
                     /\ sections["dataSources"][rank].value["type"] = "file"
               /\ \A y \in 1..Len(yamls) :
                     /\ Has(yamls[y].root["chart"]["dataSources"][rank].value, "type")
                     /\ yamls[y].root["chart"]["dataSources"][rank].value["type"] = "file"

\* a data source created without a dataType, analysed and serialized
C8_Witness ==
    /\ Len(yamls) > 0
    /\ \E i \in 1..Len(shapes) :
          /\ shapes[i]["type"] = DATA_SOURCE
          /\ ~Has(initial[i], "dataType")
          /\ shapes[i]["dataType"] = "file"

----------------------------------------------------------------------------
(* C9: after the analysis, a node whose name no earlier node has holds no  *)
(* duplicate-name diagnostic, and a node whose name an earlier node has    *)
(* holds exactly one, a warning.  When these warnings are all that was     *)
(* reported, the graph is valid and its document is downloaded.            *)
C9_DuplicateNameWarns ==
    /\ Analysed =>
          \A i \in 1..Len(shapes) :
              LET dups == About(diagnostics, shapes[i]["id"], "duplicate name")
                  later == \E j \in 1..(i - 1) : shapes[j]["name"] = shapes[i]["name"]
              IN /\ Cardinality(dups) = IF later THEN 1 ELSE 0
                 /\ \A k \in dups : diagnostics[k].severity = WARNING
    /\ (/\ pc = "idle"
        /\ result # "none"
        /\ \A i \in 1..Len(shapes) : \A d \in 1..Len(Bucket(report, i)) :
              Bucket(report, i)[d].rule = "duplicate name")
       => /\ checkSemanticAnalysisSuccess(report)
          /\ result = "saved"
          /\ Len(yamls) > 0

\* two nodes of one name, nothing else reported, the document downloaded
C9_Witness ==
    /\ pc = "idle"
    /\ result = "saved"
    /\ Len(shapes) = 2
    /\ shapes[1]["name"] = shapes[2]["name"]
    /\ Len(report) = 1
    /\ report[1].node = 2
    /\ Len(report[1].diagnostics) = 1
    /\ report[1].diagnostics[1].rule = "duplicate name"

----------------------------------------------------------------------------
(* C10: the documents performGraphSerialization downloads for one graph    *)
(* under one settings value, each from a new visitor, are all the same.    *)
C10_SameDocumentTwice ==
    \A i \in 1..Len(yamls), j \in 1..Len(yamls) : yamls[i] = yamls[j]

\* a graph with a connection, serialized twice
C10_Witness ==
    /\ Len(yamls) = 2
    /\ Len(Resolvable(shapes)) > 0
    /\ Has(yamls[2].root, "chart")

----------------------------------------------------------------------------
(* Semantic equivalence of two graphs.  A node is known by the place it    *)
(* has among the nodes of its type, its fields are those that hold a       *)
(* value, and ids and positions are not compared.                          *)

StringFields ==
    {"name", "path", "resourceName", "dataType", "description", "image", "prefix",
     "memory", "kernelArgs", "topic"}
ListFields == {"networks", "ports", "volumes", "targets", "envVars"}
FlagFields == {"disableVirt", "runDetached", "removeOnStop"}

\* the type of the node and its ordinal among the nodes of that type
Place(graph, i) ==
    <<graph[i]["type"], Cardinality({j \in 1..i : graph[j]["type"] = graph[i]["type"]})>>

\* the fields of a node that hold a value
FieldValues(node) ==
    LET held == {f \in StringFields \cap DOMAIN node : node[f] # ""}
                \cup {f \in ListFields \cap DOMAIN node : Len(node[f]) > 0}
                \cup (FlagFields \cap DOMAIN node)
    IN [f \in held |-> node[f]]

NodesOf(graph) ==
    {[place |-> Place(graph, i), fields |-> FieldValues(graph[i])] : i \in 1..Len(graph)}

\* the edges with their direction
EdgesOf(graph) ==
    {[from |-> Place(graph, Resolvable(graph)[k].from),
      to |-> Place(graph, Resolvable(graph)[k].to),
      kind |-> Resolvable(graph)[k].kind] : k \in 1..Len(Resolvable(graph))}

\* the edges without their direction
JoinsOf(graph) ==
    {[ends |-> {Place(graph, Resolvable(graph)[k].from), Place(graph, Resolvable(graph)[k].to)},
      kind |-> Resolvable(graph)[k].kind] : k \in 1..Len(Resolvable(graph))}

----------------------------------------------------------------------------
(* C1: the graph loaded from the document of a valid graph has the same    *)
(* number of nodes of each type, the same field values per node, and the   *)
(* same edges by kind and by the pair of nodes joined, in whichever        *)
(* direction.                                                              *)
C1_RoundTripUpToDirection ==
    loads > 0 =>
        /\ \A t \in EShapeType :
              Cardinality({i \in 1..Len(loaded) : loaded[i]["type"] = t})
                 = Cardinality({i \in 1..Len(shapes) : shapes[i]["type"] = t})
        /\ NodesOf(loaded) = NodesOf(shapes)
        /\ JoinsOf(loaded) = JoinsOf(shapes)

\* a valid graph with a link drawn from a data source, loaded back
C1_Witness ==
    /\ loads > 0
    /\ \E k \in 1..Len(Resolvable(shapes)) :
          shapes[Resolvable(shapes)[k].from]["type"] = DATA_SOURCE
    /\ Len(loaded) = Len(shapes)

\* C1 as stated: the same edges by source, destination and kind
C1_RoundTripDirected ==
    loads > 0 =>
        /\ NodesOf(loaded) = NodesOf(shapes)
        /\ EdgesOf(loaded) = EdgesOf(shapes)

----------------------------------------------------------------------------
(* Notions about an uploaded file.                                         *)

\* the document performGraphSerialization downloads for the empty graph
EmptyGraphFile == performGraphSerialization(<<>>, DefaultSettings).yaml

\* the graph performGraphDeserialization returns for a text that does not parse
FailureSentinel == performGraphDeserialization(Unparsable, 0)

SectionNames == {"dataSources", "storedProcedures", "eventTriggers", "events"}

\* a document one of whose entries holds null
HoldsNull(text) ==
    /\ text.kind = "object"
    /\ Has(text.root, "chart")
    /\ \E f \in SectionNames \cap DOMAIN text.root["chart"] :
          \E k \in 1..Len(text.root["chart"][f]) : text.root["chart"][f][k].value = Null

----------------------------------------------------------------------------
(* C11: the document of the empty graph has no chart key, and loading it   *)
(* gives an empty graph that differs from what a failed deserialization    *)
(* returns, so that the editor does not report the file as unreadable.     *)
C11_EmptyGraphNotSentinel ==
    (loads > 0 /\ content = EmptyGraphFile) =>
        /\ ~Has(content.root, "chart")
        /\ loaded = <<>>
        /\ loaded # FailureSentinel
        /\ deserializationError # CouldNotReconstruct

----------------------------------------------------------------------------
(* C12: no exception leaves performGraphDeserialization; for a text that   *)
(* does not parse, an empty text, a text whose root is a scalar and a      *)
(* document with an entry whose reconstruction throws, it returns the      *)
(* empty graph.                                                            *)
C12_NeverRaises ==
    loads > 0 =>
        /\ loaded # Raised
        /\ (content \in {Unparsable, EmptyText, ScalarText} \/ HoldsNull(content)) =>
              /\ loaded = <<>>
              /\ deserializationError = CouldNotReconstruct

\* a document whose second entry holds null was read: pass 1 threw after it had
\* handled the first entry
C12_Witness ==
    /\ loads > 0
    /\ HoldsNull(content)
    /\ Len(content.root["chart"]["dataSources"]) = 1
    /\ content.root["chart"]["dataSources"][1].value # Null
    /\ loaded = <<>>

----------------------------------------------------------------------------
(* C13: a target is accepted exactly when it is platform/architecture with *)
(* platform one of qemu, xen, firecracker and architecture one of x86_64,  *)
(* arm64; after the analysis a workload holds one error listing all its    *)
(* rejected targets, in their order, if it has any, and none otherwise.    *)
C13_TargetsRejectedListed ==
    Analysed =>
        \A i \in 1..Len(shapes) :
            (shapes[i]["type"] # DATA_SOURCE /\ Has(shapes[i], "targets")) =>
                LET accepted == {p \o "/" \o a : p \in {"qemu", "xen", "firecracker"},
                                                 a \in {"x86_64", "arm64"}}
                    rejected == SelectSeq(shapes[i]["targets"], LAMBDA t : t \notin accepted)
                    found == About(diagnostics, shapes[i]["id"], "invalid targets")
                    listed == {d \in 1..Len(Bucket(report, i)) :
                                  Bucket(report, i)[d].rule = "invalid targets"}
                IN /\ Cardinality(found) = IF Len(rejected) > 0 THEN 1 ELSE 0
                   /\ Cardinality(listed) = Cardinality(found)
                   /\ \A k \in found :
                         /\ diagnostics[k].severity = ERROR
                         /\ diagnostics[k].details = rejected

\* a workload with the targets qemu/arm and qemu/x86_64, analysed: one error
\* that lists qemu/arm
C13_Witness ==
    /\ Analysed
    /\ \E i \in 1..Len(shapes) :
          /\ Has(shapes[i], "targets")
          /\ shapes[i]["targets"] = <<"qemu/arm", "qemu/x86_64">>
          /\ \E k \in About(diagnostics, shapes[i]["id"], "invalid targets") :
                diagnostics[k].details = <<"qemu/arm">>

----------------------------------------------------------------------------
(* C14: a file upload replaces the shapes and the three line lists by the  *)
(* deserialized graph and its edges when that graph is not empty and its   *)
(* analysis holds no error; in every other case it leaves all four as they *)
(* were.                                                                   *)
C14_ReplacedOnlyIfValid ==
    [][loads' # loads =>
          LET a == performGraphSemanticAnalysis(loaded')
              accepted == Len(loaded') > 0 /\ ERROR \notin Severities(a.report)
              Ends(ls) == [k \in 1..Len(ls) |-> <<ls[k].from, ls[k].to>>]
              Drawn(f) ==
                  LET es == SelectSeq(Entries(loaded'), LAMBDA e : ListOf(e.kind) = f)
                  IN [k \in 1..Len(es) |-> <<loaded'[es[k].from]["id"], es[k].to>>]
          IN IF accepted
             THEN /\ shapes' = a.graph
                  /\ Ends(lines') = Drawn("connectedTo")
                  /\ Ends(softLines') = Drawn("softConnectedTo")
                  /\ Ends(eventLines') = Drawn("eventConnectedTo")
             ELSE UNCHANGED << shapes, lines, softLines, eventLines >>]_vars

\* the editor held a graph with a line, a document that is not empty and whose
\* analysis holds an error was read, and the editor holds what it held
C14_Witness ==
    /\ loads > 0
    /\ Len(loaded) > 0
    /\ ERROR \in Severities(performGraphSemanticAnalysis(loaded).report)
    /\ Len(shapes) > 0
    /\ shapes = initial
    /\ Len(lines) > 0

----------------------------------------------------------------------------
(* The callbacks one run of GraphAnalyzer.run makes, told from the graph.  *)

\* the position of the node with this id, 0 if the graph holds none
PositionOf(graph, id) ==
    IF \E j \in 1..Len(graph) : graph[j]["id"] = id
    THEN CHOOSE j \in 1..Len(graph) : graph[j]["id"] = id
    ELSE 0

\* one visitEdge per entry of the list f of node i whose destination is a node
ListCalls(graph, i, f, kind) ==
    LET present == SelectSeq(ArrayOf(graph[i], f), LAMBDA id : PositionOf(graph, id) # 0)
    IN [k \in 1..Len(present) |->
           [call |-> "visitEdge", kind |-> kind, from |-> i, to |-> PositionOf(graph, present[k])]]

RECURSIVE EdgeCallsFrom(_, _)
EdgeCallsFrom(graph, i) ==
    IF i > Len(graph) THEN <<>>
    ELSE ListCalls(graph, i, "connectedTo", HARD_LINK)
         \o ListCalls(graph, i, "softConnectedTo", SOFT_LINK)
         \o ListCalls(graph, i, "eventConnectedTo", EVENT_LINK)
         \o EdgeCallsFrom(graph, i + 1)

ExpectedCalls(graph) ==
    <<[call |-> "enterGraph"]>>
    \o [i \in 1..Len(graph) |-> [call |-> "visitNode", node |-> i]]
    \o EdgeCallsFrom(graph, 1)
    \o <<[call |-> "exitGraph"]>>

IsPrefix(a, b) == Len(a) <= Len(b) /\ SubSeq(b, 1, Len(a)) = a

\* the graph without the adjacency entries whose destination is no node of it
WithoutAbsent(graph) ==
    [i \in 1..Len(graph) |->
        [f \in DOMAIN graph[i] |->
            IF f \in {"connectedTo", "softConnectedTo", "eventConnectedTo"}
            THEN SelectSeq(graph[i][f], LAMBDA id : PositionOf(graph, id) # 0)
            ELSE graph[i][f]]]

----------------------------------------------------------------------------
(* C15: the callbacks of a run are, in this order, enterGraph, visitNode   *)
(* for each node in stored order, then for each node in stored order and   *)
(* for hard, soft, event in that order one visitEdge per entry, in list    *)
(* order, whose destination is a node, then exitGraph; while the run goes  *)
(* on its callbacks are a prefix of these; an entry whose destination is   *)
(* absent adds no callback and no diagnostic.                              *)
C15_CallSequence ==
    /\ visitor # "none" => IsPrefix(calls, ExpectedCalls(shapes))
    /\ (pc = "check" \/ (pc = "idle" /\ result \in {"refused", "saved"})) =>
          calls = ExpectedCalls(shapes)
    /\ Analysed =>
          diagnostics = performGraphSemanticAnalysis(WithoutAbsent(initial)).diagnostics

\* a run has returned on a graph with a node whose list holds the id of a
\* deleted shape before the id of a node: one visitEdge was made
C15_Witness ==
    /\ pc = "check"
    /\ \E i \in 1..Len(shapes) : \E f \in {"connectedTo", "softConnectedTo", "eventConnectedTo"} :
          /\ Has(shapes[i], f)
          /\ Len(shapes[i][f]) = 2
          /\ shapes[i][f][1] = Deleted
          /\ shapes[i][f][2] # Deleted
    /\ Len(calls) = Len(shapes) + 3

----------------------------------------------------------------------------
(* C16: the map a run returns holds, under each node, the diagnostics      *)
(* reported during that run whose nodeId is the id of that node, in report *)
(* order, and nothing else: no diagnostic without nodeId, none whose       *)
(* nodeId is no id of the graph, none of an earlier run.                   *)
C16_ReportThisRunByNode ==
    (pc = "idle" /\ runs > 0) =>
        LET reported == [k \in 1..(Len(calls) - 1) |-> calls[k + 1].diagnostic]
            Of(i) == SelectSeq(reported,
                               LAMBDA d : Has(d, "nodeId") /\ d.nodeId = shapes[i]["id"])
        IN /\ \A i \in 1..Len(shapes) : Bucket(report, i) = Of(i)
           /\ \A k \in 1..Len(report) :
                 /\ report[k].node \in 1..Len(shapes)
                 /\ Len(report[k].diagnostics) > 0
                 /\ \A j \in 1..Len(report) : report[j].node = report[k].node => j = k

----------------------------------------------------------------------------
\* the prefix of the output keys of a node type
TypePrefix(kind) ==
    CASE kind = DATA_SOURCE -> "datasource"
      [] kind = STORED_PROCEDURE -> "procedure"
      [] kind = EVENT_TRIGGER -> "trigger"
      [] kind = EVENT -> "event"

\* the nodes of the same type visited before node i
VisitedBefore(graph, i) ==
    Cardinality({j \in 1..(i - 1) : graph[j]["type"] = graph[i]["type"]})

\* during a serialization run every visited node is keyed, in the section of
\* its type and in the id -> name map, by its prefix and ordinal, the ordinal
\* being the number of nodes of its type visited before it plus first
NamedByOrdinal(first) ==
    (visitor = "serialization" /\ pc \in {"nodes", "edges", "exit"}) =>
        \A i \in 1..(ni - 1) :
            LET kind == shapes[i]["type"]
                name == TypePrefix(kind) \o "_"
                            \o NumberString(VisitedBefore(shapes, i) + first)
            IN /\ Has(nameMap, shapes[i]["id"])
               /\ nameMap[shapes[i]["id"]] = name
               /\ KeyIndex(sections[SectionOf(kind)], name) # 0

(* C17 as stated: visitNode gives each node the output key                 *)
(* "{typePrefix}_{ordinal}" where ordinal is the number of nodes of the    *)
(* same type already visited in the run, so that the first gets 0, and     *)
(* records id -> that name.                                                *)
C17_OrdinalFromZero == NamedByOrdinal(0)

(* C17, amended: the ordinal is one more than the number of nodes of the   *)
(* same type already visited in the run, so that the first visited node of *)
(* a type gets 1; the key is "{typePrefix}_{ordinal}" and id -> that name  *)
(* is recorded.                                                            *)
C17_OrdinalFromOne == NamedByOrdinal(1)

\* a second node of a type has been visited by the serialization visitor
C17_Witness ==
    /\ visitor = "serialization" /\ pc \in {"nodes", "edges", "exit"}
    /\ \E i \in 1..(ni - 1) :
          /\ VisitedBefore(shapes, i) = 1
          /\ nameMap[shapes[i]["id"]] = TypePrefix(shapes[i]["type"]) \o "_2"

----------------------------------------------------------------------------
\* a document has just been downloaded for the graph of the editor
Saved == pc = "idle" /\ result = "saved" /\ visitor = "serialization" /\ Len(yamls) > 0

\* the section of a node type in a document
SectionIn(text, kind) == ArrayOf(ObjectOf(text.root, "chart"), SectionOf(kind))

\* the resolvable entries with a data source at either end
TouchesDataSource(graph, e) ==
    graph[e.from]["type"] = DATA_SOURCE \/ graph[e.to]["type"] = DATA_SOURCE

(* C18: in the downloaded document every link with a data source at either *)
(* end is held by the bucket of its kind of the workload at the other end, *)
(* with the derived name of the data source as destination, whichever way  *)
(* the adjacency entry pointed; no entry of dataSources holds links.       *)
C18_DataSourceIsDestination ==
    Saved =>
        LET doc == yamls[Len(yamls)]
            es == Resolvable(shapes)
        IN /\ \A k \in 1..Len(es) :
                 TouchesDataSource(shapes, es[k]) =>
                    LET fromDS == shapes[es[k].from]["type"] = DATA_SOURCE
                        w == shapes[IF fromDS THEN es[k].to ELSE es[k].from]
                        d == shapes[IF fromDS THEN es[k].from ELSE es[k].to]
                        sec == SectionIn(doc, w["type"])
                        at == KeyIndex(sec, nameMap[w["id"]])
                    IN /\ w["type"] # DATA_SOURCE
                       /\ at # 0
                       /\ Has(sec[at].value, "links")
                       /\ Has(sec[at].value["links"], LinkBucket(es[k].kind))
                       /\ Includes(sec[at].value["links"][LinkBucket(es[k].kind)],
                                   [destination |-> nameMap[d["id"]]])
           /\ \A j \in 1..Len(SectionIn(doc, DATA_SOURCE)) :
                 ~Has(SectionIn(doc, DATA_SOURCE)[j].value, "links")

\* a document was downloaded for a graph in which an adjacency entry of a data
\* source points at a workload
C18_Witness ==
    /\ Saved
    /\ \E k \in 1..Len(Resolvable(shapes)) :
          shapes[Resolvable(shapes)[k].from]["type"] = DATA_SOURCE
    /\ Len(SectionIn(yamls[Len(yamls)], DATA_SOURCE)) > 0

----------------------------------------------------------------------------
\* the keys of the four sections of a document
KeysOf(text) ==
    UNION {{SectionIn(text, t)[k].key : k \in 1..Len(SectionIn(text, t))} : t \in EShapeType}

\* a list of links with every destination renamed
RenamedLinks(ls, to) ==
    [k \in 1..Len(ls) |->
        IF Has(ls[k], "destination") /\ ls[k]["destination"] \in DOMAIN to
        THEN [destination |-> to[ls[k]["destination"]]] ELSE ls[k]]

\* the value of a section entry with the destinations of its links renamed
RenamedValue(value, to) ==
    IF ~Has(value, "links") THEN value
    ELSE Put(value, "links",
             [b \in DOMAIN value["links"] |-> RenamedLinks(value["links"][b], to)])

\* the entries of a section, keys and link destinations renamed; a section is
\* a mapping, so the entries are taken without their order
RenamedSection(text, t, to) ==
    {[key |-> to[SectionIn(text, t)[k].key],
      value |-> RenamedValue(SectionIn(text, t)[k].value, to)] :
        k \in 1..Len(SectionIn(text, t))}

\* the links of a value with every bucket taken as what it holds, not in what order
Unordered(value) ==
    IF ~Has(value, "links") THEN value
    ELSE Put(value, "links",
             [b \in DOMAIN value["links"] |->
                 [d \in {value["links"][b][k] : k \in 1..Len(value["links"][b])} |->
                     Cardinality({k \in 1..Len(value["links"][b]) : value["links"][b][k] = d})]])

\* the consistent renamings of the keys of one document into those of another:
\* one to one, a key of a section to a key of the same section
Renamings(a, b) ==
    {to \in [KeysOf(a) -> KeysOf(b)] :
        /\ \A x, y \in KeysOf(a) : to[x] = to[y] => x = y
        /\ \A t \in EShapeType : \A k \in 1..Len(SectionIn(a, t)) :
              KeyIndex(SectionIn(b, t), to[SectionIn(a, t)[k].key]) # 0}

\* both drawings were saved
BothSaved == Len(yamls) = 2

\* all of a document but its chart
Header(text) == [f \in DOMAIN text.root \ {"chart"} |-> text.root[f]]

(* C19 as stated: the documents of two valid graphs that differ only in    *)
(* the order of nodes of one type are identical after a consistent         *)
(* renaming of the derived names, the order of the entries inside every    *)
(* link bucket included.                                                   *)
C19_IdenticalAfterRenaming ==
    BothSaved =>
        \E to \in Renamings(yamls[2], yamls[1]) :
            /\ Header(yamls[2]) = Header(yamls[1])
            /\ \A t \in EShapeType :
                  RenamedSection(yamls[2], t, to)
                     = {[key |-> SectionIn(yamls[1], t)[k].key,
                         value |-> SectionIn(yamls[1], t)[k].value] :
                           k \in 1..Len(SectionIn(yamls[1], t))}

(* C19, amended: after a consistent renaming of the derived names the two  *)
(* documents have the same header and the same sections, every entry with  *)
(* the same fields and every link bucket with the same destinations as     *)
(* many times; the order of the destinations inside a bucket can differ.   *)
C19_IdenticalUpToBucketOrder ==
    BothSaved =>
        \E to \in Renamings(yamls[2], yamls[1]) :
            /\ Header(yamls[2]) = Header(yamls[1])
            /\ \A t \in EShapeType :
                  {[key |-> e.key, value |-> Unordered(e.value)] :
                      e \in RenamedSection(yamls[2], t, to)}
                     = {[key |-> SectionIn(yamls[1], t)[k].key,
                         value |-> Unordered(SectionIn(yamls[1], t)[k].value)] :
                           k \in 1..Len(SectionIn(yamls[1], t))}

\* both drawings were saved, the two data sources in another order, and a
\* stored procedure holds a link to each of them
C19_Witness ==
    /\ BothSaved
    /\ shapes # reordered
    /\ \E k \in 1..Len(SectionIn(yamls[1], STORED_PROCEDURE)) :
          LET value == SectionIn(yamls[1], STORED_PROCEDURE)[k].value
          IN /\ Has(value, "links")
             /\ \E b \in DOMAIN value["links"] : Len(value["links"][b]) = 2

----------------------------------------------------------------------------
\* the adjacency list a link bucket is loaded into
ListOfBucket(bucket) ==
    CASE bucket = "hardLinks" -> "connectedTo"
      [] bucket = "softLinks" -> "softConnectedTo"
      [] bucket = "eventLinks" -> "eventConnectedTo"

(* C20: in the graph loaded from a document every link {destination: name} *)
(* is the id of the node built from the entry keyed name, in whichever     *)
(* section that entry is and whether it comes before or after the linking  *)
(* entry; a destination that is no key of any section is loaded as an      *)
(* undefined adjacency entry, the loading does not fail, and the analysis  *)
(* that follows reports what it reports for the graph without that entry.  *)
C20_LinksResolveByName ==
    (loads > 0 /\ content \in HandFiles) =>
        LET entries == ChartEntries(content.root["chart"])
        IN /\ Len(loaded) = Len(entries)
           /\ \A i \in 1..Len(entries) :
                 \A bucket \in {"hardLinks", "softLinks", "eventLinks"} :
                    LET links == ArrayOf(ObjectOf(entries[i].value, "links"), bucket)
                        adj == loaded[i][ListOfBucket(bucket)]
                    IN /\ Len(adj) = Len(links)
                       /\ \A k \in 1..Len(links) :
                             IF /\ Has(links[k], "destination")
                                /\ \E j \in 1..Len(entries) :
                                      entries[j].key = links[k]["destination"]
                             THEN \E j \in 1..Len(entries) :
                                     /\ entries[j].key = links[k]["destination"]
                                     /\ adj[k] = loaded[j]["id"]
                             ELSE adj[k] = Undefined
           /\ report = performGraphSemanticAnalysis(WithoutAbsent(loaded)).report

\* a document was loaded in which the data source links to the stored
\* procedure of a later section, and the stored procedure to no entry and
\* then to the data source of an earlier section
C20_Witness ==
    /\ loads > 0
    /\ content \in HandFiles
    /\ Len(loaded) = 4
    /\ loaded[1]["softConnectedTo"] = <<loaded[2]["id"]>>
    /\ loaded[2]["connectedTo"] = <<Undefined, loaded[1]["id"]>>

----------------------------------------------------------------------------
(* C21: a run of a SemanticVisitor that has been through earlier runs      *)
(* reports what a new SemanticVisitor reports for the same graph: the same *)
(* diagnostics in the same order.                                          *)
C21_SameAsNewVisitor ==
    (Analysed /\ runs > 0) =>
        diagnostics = performGraphSemanticAnalysis(shapes).diagnostics

\* a second run of one visitor has ended on a graph with a name, an edge and a
\* hard link to remember, and has reported something
C21_Witness ==
    /\ Analysed
    /\ runs = 2
    /\ nodeNames # {}
    /\ seenEdges # {}
    /\ DOMAIN hardLinkCounts # {}
    /\ Len(diagnostics) > 0

----------------------------------------------------------------------------
(* C22: the document of a run of a SerializationVisitor that has been      *)
(* through earlier runs is the document a new SerializationVisitor yields  *)
(* for the same graph; it holds no entry and no link of the graphs of the  *)
(* earlier runs.                                                           *)
C22_SameAsNewVisitor ==
    [][(visitor = "serialization" /\ pc = "exit" /\ pc' = "idle") =>
          yamls'[Len(yamls')]
             = Serialized([graph |-> shapes, report |-> <<>>], settings).yaml]_vars

----------------------------------------------------------------------------
\* a node with the defaults of an analysis run: a data source without dataType
\* (or, if emptyToo, with an empty one) gets "file", any other node gets false
\* for each of the three flags that is absent or false
Defaulted(node, emptyToo) ==
    IF node["type"] = DATA_SOURCE
    THEN IF ~Has(node, "dataType") \/ (emptyToo /\ node["dataType"] = "")
         THEN Put(node, "dataType", "file") ELSE node
    ELSE [f \in DOMAIN node \cup {"disableVirt", "runDetached", "removeOnStop"} |->
             IF f \in {"disableVirt", "runDetached", "removeOnStop"}
                /\ (~Has(node, f) \/ node[f] = FALSE)
             THEN FALSE ELSE node[f]]

\* every step leaves the graph as it is, but for a visitNode of the analysis,
\* which leaves the visited node with its defaults
OnlyDefaults(emptyToo) ==
    IF visitor = "semantic" /\ pc = "nodes"
    THEN shapes' = [shapes EXCEPT ![ni] = Defaulted(@, emptyToo)]
    ELSE shapes' = shapes

(* C23 as stated: an analysis run changes nothing in the graph except that *)
(* a data source's absent dataType becomes "file" and a workload's absent  *)
(* or falsy disableVirt, runDetached, removeOnStop become false; ids,      *)
(* types, names, positions, adjacency lists, other fields and the node     *)
(* order stay, and a serialization traversal changes no node.              *)
C23_OnlyAbsentDefaults == [][OnlyDefaults(FALSE)]_vars

(* C23, amended: the same, with a data source's absent or empty dataType   *)
(* becoming "file".                                                        *)
C23_OnlyDefaults == [][OnlyDefaults(TRUE)]_vars

\* a document was downloaded for a graph the analysis has written a default into
C23_Witness == Saved /\ shapes # initial

----------------------------------------------------------------------------
\* no two nodes of the graph hold the same id
DistinctIds(graph) ==
    \A i, j \in 1..Len(graph) : i # j => graph[i]["id"] # graph[j]["id"]

(* C24: every graph returned by deserializeGraph has pairwise distinct     *)
(* node ids, also when the document gives the same id to two entries or    *)
(* gives no id to some entries.                                            *)
C24_DistinctNodeIds == loaded # Raised => DistinctIds(loaded)

----------------------------------------------------------------------------
\* the document of the last download, loaded back
Reloaded == loads > 0 /\ loaded # Raised /\ Len(yamls) > 0

(* C25: for every graph with pairwise distinct ids and no error, the       *)
(* analysis of the graph loaded from its document reports no error either: *)
(* the turned links, the left-out empty fields and the regrouping by type  *)
(* do not make a valid graph invalid.                                      *)
C25_ReloadedIsValid ==
    Reloaded => checkSemanticAnalysisSuccess(performGraphSemanticAnalysis(loaded).report)

\* a valid graph with a link drawn from a data source was loaded back, the
\* link now held by the workload
C25_Witness ==
    /\ Reloaded
    /\ \E k \in 1..Len(Resolvable(shapes)) :
          shapes[Resolvable(shapes)[k].from]["type"] = DATA_SOURCE
    /\ \E i \in 1..Len(loaded) :
          /\ loaded[i]["type"] # DATA_SOURCE
          /\ Len(loaded[i]["connectedTo"]) + Len(loaded[i]["softConnectedTo"]) > 0

----------------------------------------------------------------------------
(* C26: the document is a fixed point: for a valid graph with pairwise     *)
(* distinct non-blank ids and fixed settings, the document of the graph    *)
(* loaded from the document equals the document (same keys, fields, link   *)
(* buckets and bucket order).                                              *)
C26_FixedPoint ==
    Reloaded =>
        With({performGraphSerialization(loaded, settings)},
             LAMBDA again : again.result = "saved" /\ again.yaml = yamls[Len(yamls)])

----------------------------------------------------------------------------
\* the node visitEdge takes as the source of a resolvable entry
CanonicalSource(graph, e) ==
    IF e.kind \in {HARD_LINK, SOFT_LINK} /\ graph[e.from]["type"] = DATA_SOURCE
    THEN e.to ELSE e.from

\* the node visitEdge takes as its destination
CanonicalDestination(graph, e) ==
    IF e.kind \in {HARD_LINK, SOFT_LINK} /\ graph[e.from]["type"] = DATA_SOURCE
    THEN e.from ELSE e.to

\* the places of the links of a document: section, entry, bucket, position
LinkPlaces(text) ==
    UNION {UNION {UNION {
        {<<t, k, b, j>> :
            j \in 1..Len(ArrayOf(ObjectOf(SectionIn(text, t)[k].value, "links"), b))} :
        b \in {"hardLinks", "softLinks", "eventLinks"}} :
        k \in 1..Len(SectionIn(text, t))} :
        t \in EShapeType}

(* C27: in a graph with pairwise distinct ids and no error every           *)
(* resolvable adjacency entry has, after the turn of a link out of a data  *)
(* source, a stored procedure or an event trigger as its source, so        *)
(* visitEdge finds the link bucket (it neither throws nor drops the edge)  *)
(* and the document holds exactly one link per resolvable entry.           *)
C27_OneLinkPerEntry ==
    /\ result # "thrown"
    /\ visitor = "serialization" =>
          \A k \in 1..Len(Resolvable(shapes)) :
             shapes[CanonicalSource(shapes, Resolvable(shapes)[k])]["type"]
                \in {STORED_PROCEDURE, EVENT_TRIGGER}
    /\ Saved =>
          LET doc == yamls[Len(yamls)]
              es == Resolvable(shapes)
          IN /\ Cardinality(LinkPlaces(doc)) = Len(es)
             /\ \A k \in 1..Len(es) :
                   LET s == shapes[CanonicalSource(shapes, es[k])]
                       d == shapes[CanonicalDestination(shapes, es[k])]
                       sec == SectionIn(doc, s["type"])
                       at == KeyIndex(sec, nameMap[s["id"]])
                       links == ArrayOf(ObjectOf(sec[at].value, "links"), LinkBucket(es[k].kind))
                   IN /\ at # 0
                      /\ Cardinality({j \in 1..Len(links) :
                                         links[j] = [destination |-> nameMap[d["id"]]]})
                            = Cardinality({j \in 1..Len(es) :
                                  /\ es[j].kind = es[k].kind
                                  /\ CanonicalSource(shapes, es[j]) = CanonicalSource(shapes, es[k])
                                  /\ CanonicalDestination(shapes, es[j])
                                        = CanonicalDestination(shapes, es[k])})

\* a document was downloaded for a graph of two resolvable entries, one of
\* them drawn from a data source
C27_Witness ==
    /\ Saved
    /\ Len(Resolvable(shapes)) = 2
    /\ \E k \in 1..2 : shapes[Resolvable(shapes)[k].from]["type"] = DATA_SOURCE
    /\ Cardinality(LinkPlaces(yamls[Len(yamls)])) = 2

----------------------------------------------------------------------------
(* C28: validity does not depend on the node order: for a graph with       *)
(* pairwise distinct ids and any order of its nodes, the analysis of the   *)
(* one is valid exactly when the analysis of the other is.                 *)
C28_SameValidity ==
    (pc = "returned" /\ Len(reordered) > 0) =>
        (result = "valid" <=> checkSemanticAnalysisSuccess(report))

\* a graph whose only error is reported at another node in the other order
C28_Witness ==
    /\ pc = "returned"
    /\ result = "invalid"
    /\ reordered # shapes
    /\ \E i, j \in 1..Len(shapes) :
          /\ shapes[i]["id"] = reordered[j]["id"]
          /\ Bucket(report, i) # <<>>
          /\ Bucket(groupedErrors(reordered, performGraphSemanticAnalysis(reordered).diagnostics), j)
                = <<>>

----------------------------------------------------------------------------
\* the resolvable hard-link entries with the node at position i at either end
HardEntriesAt(graph, i) ==
    {k \in 1..Len(Resolvable(graph)) :
        /\ Resolvable(graph)[k].kind = HARD_LINK
        /\ i \in {Resolvable(graph)[k].from, Resolvable(graph)[k].to}}

(* C29: the multiple-hard-links error is reported for a data source only   *)
(* if at least two distinct hard-link adjacency entries have it as an      *)
(* endpoint; a data source touched by one hard-link entry, also one from   *)
(* the data source to itself, never gets that error.                       *)
C29_TwoHardLinkEntries ==
    Analysed =>
        \A i \in 1..Len(shapes) :
            (/\ shapes[i]["type"] = DATA_SOURCE
             /\ About(diagnostics, shapes[i]["id"], "multiple hard links") # {})
               => Cardinality(HardEntriesAt(shapes, i)) >= 2

----------------------------------------------------------------------------
\* the k-th resolvable entry joins the same two nodes as an entry read before it
JoinedBefore(graph, k) ==
    \E j \in 1..(k - 1) :
        {Resolvable(graph)[j].from, Resolvable(graph)[j].to}
           = {Resolvable(graph)[k].from, Resolvable(graph)[k].to}

(* C30: a duplicate-edge error is reported for an adjacency entry only if  *)
(* an entry visited earlier in the run joins the same unordered pair of    *)
(* node ids; entries joining different pairs never collide on the key, for *)
(* any ids, also ids that hold the '-' the key is joined with.             *)
C30_DuplicateOnlyForSamePair ==
    Analysed =>
        \A i \in 1..Len(shapes) :
            Cardinality(About(diagnostics, shapes[i]["id"], "multiple edges"))
               <= Cardinality({k \in 1..Len(Resolvable(shapes)) :
                                  Resolvable(shapes)[k].from = i /\ JoinedBefore(shapes, k)})

====
